---- MODULE Spec2Model ----
(***************************************************************************)
(* Skill installation engine of simpleclaw:                                *)
(*   - installSkillFromArchiveUrl (plugins/skill-install.ts): validate the *)
(*     name, download the archive through the guarded fetcher, extract it  *)
(*     in a temp directory, check SKILL.md, replace managedDir/<name>;     *)
(*   - recordSkillInstall / removeSkillInstall: the skill install ledger   *)
(*     kept in the configuration value;                                    *)
(*   - the marketplace HTTP handlers (gateway/marketplace-http.ts):        *)
(*     installed, install, uninstall and sync requests;                    *)
(*   - resolveGarAuthToken, resolveRegistryAuth, fetchCatalog,             *)
(*     fetchCatalogWithAuth and searchCatalog.                             *)
(* Every await of the install function is one step; the file system, the   *)
(* fetcher and the extractor answer each step with success or an error.    *)
(***************************************************************************)
EXTENDS Naturals, Integers, Sequences, FiniteSets, TLC

\* ---------------------------------------------------------------- bounds
MaxNameLen == 2     \* skill names are strings of at most this many characters
MaxCalls == 1       \* installSkillFromArchiveUrl is called at most this often

\* The callers that can hold an install call: the gateway's install request
\* and its sync request.
Procs == {"install", "sync"}

\* ------------------------------------------------------------- strings
\* A skill name is a sequence of characters; one letter stands for every
\* character that is neither a dot nor a path separator.
Chars == {"a", ".", "/", "\\"}

Names == UNION {[1..n -> Chars] : n \in 0..MaxNameLen}

includes(s, c) == \E i \in 1..Len(s) : s[i] = c

startsWith(s, c) == Len(s) >= 1 /\ s[1] = c

\* An error message is the sequence of its parts.
InvalidSkillName == <<"Invalid skill name">>
DotSkillName == <<"Skill name cannot start with a dot">>
NoMessage == <<>>

\* Mutation: the backslash is not treated as a path separator.
validateSkillNameNoBackslash(name) ==
    IF \/ name = <<>>
       \/ includes(name, "/")
       \/ name = <<".">>
       \/ name = <<".", ".">>
    THEN InvalidSkillName
    ELSE IF startsWith(name, ".")
    THEN DotSkillName
    ELSE NoMessage

\* validateSkillName: NoMessage when the name passes, else the message of the
\* error it throws.

validateSkillName(name) ==
    IF \/ name = <<>>
       \/ includes(name, "/")
       \/ includes(name, "\\")
       \/ name = <<".">>
       \/ name = <<".", ".">>
    THEN InvalidSkillName
    ELSE IF startsWith(name, ".")
    THEN DotSkillName
    ELSE NoMessage

\* A URL is its scheme prefix followed by the rest of the string.
Urls == { <<"gs://", "bucket/skills/s.tar.gz">>,
          <<"https://", "example.com/s.tar.gz">> }

resolveGcsUrl(url) ==
    IF Len(url) >= 1 /\ url[1] = "gs://"
    THEN <<"https://storage.googleapis.com/">> \o Tail(url)
    ELSE url

\* ------------------------------------------------------------ archives
\* What an archive holds below its single top-level directory: file -> content.
SkillMd == "SKILL.md"

ArchiveA == [f \in {"SKILL.md", "README.md"} |-> "A"]
ArchiveB == [f \in {"SKILL.md"} |-> "B"]
ArchiveNoMarker == [f \in {"README.md"} |-> "C"]

Archives == {ArchiveA, ArchiveB, ArchiveNoMarker}

EmptyDir == [f \in {} |-> ""]

\* ------------------------------------------------------------- results
NoName == <<>>
ManagedSkillsDir == "skills"

\* { ok: false, error }
Fail(error) == [ok |-> FALSE, error |-> error, skillName |-> NoName, targetDir |-> <<>>]

\* `Download failed: ${response.status} ${response.statusText}`
DownloadFailed(response) == <<"Download failed:", response.status, response.statusText>>

NoSkillMd ==
    <<"Archive does not contain a ", "SKILL.md", " file. Not a valid skill package.">>

\* { ok: false, error: err.message } of the catch blocks
Thrown(msg) == Fail(<<msg>>)

\* path.join(managedSkillsDir, name)
TargetDir(name) == <<ManagedSkillsDir, name>>

\* { ok: true, skillName: name, targetDir }
Success(name) ==
    [ok |-> TRUE, error |-> NoMessage, skillName |-> name, targetDir |-> TargetDir(name)]

NoResult == Fail(NoMessage)

\* Responses the guarded fetcher can hand over.
Responses ==
    { [ok |-> TRUE, status |-> "200", statusText |-> "OK"],
      [ok |-> FALSE, status |-> "404", statusText |-> "Not Found"],
      [ok |-> FALSE, status |-> "503", statusText |-> "Service Unavailable"] }

NoResponse == [ok |-> FALSE, status |-> "", statusText |-> ""]

\* Errors the guarded fetcher can throw instead.
FetchErrors == {"timeout", "blocked private address", "dns failure"}

\* -------------------------------------------------- the install ledger
\* A configuration value is an object: a function from its property names to
\* their values.  `undefined` is the value of a property that is present but
\* undefined.
EmptyObject == <<>>

undefined == [u \in {<<"undefined">>} |-> "undefined"]

\* { ...o, [k]: v }
Assign(o, k, v) == [x \in DOMAIN o \cup {k} |-> IF x = k THEN v ELSE o[x]]

\* the properties of o other than k (rest destructuring, delete)
Omit(o, k) == [x \in DOMAIN o \ {k} |-> o[x]]

\* ...cfg.skills: the properties of cfg.skills, none when there is no skills
SkillsOf(cfg) == IF "skills" \in DOMAIN cfg THEN cfg["skills"] ELSE EmptyObject

\* ...cfg.skills?.installs
InstallsOf(cfg) ==
    IF "installs" \in DOMAIN SkillsOf(cfg) /\ SkillsOf(cfg)["installs"] # undefined
    THEN SkillsOf(cfg)["installs"]
    ELSE EmptyObject

\* Mutation: the existing install records are not spread into the new map.
recordSkillInstallAlone(cfg, params, nowIso) ==
    LET skillName == params["skillName"]
        record == Omit(params, "skillName")
        installedAt == IF "installedAt" \in DOMAIN record
                       THEN record["installedAt"]
                       ELSE nowIso
    IN  Assign(cfg, "skills",
            Assign(SkillsOf(cfg), "installs",
                Assign(EmptyObject, skillName,
                    Assign(record, "installedAt", installedAt))))

recordSkillInstall(cfg, params, nowIso) ==
    LET skillName == params["skillName"]
        record == Omit(params, "skillName")
        installedAt == IF "installedAt" \in DOMAIN record
                       THEN record["installedAt"]
                       ELSE nowIso
    IN  Assign(cfg, "skills",
            Assign(SkillsOf(cfg), "installs",
                Assign(InstallsOf(cfg), skillName,
                    Assign(record, "installedAt", installedAt))))

\* Mutation: an installs map that became empty is kept as an empty object.
removeSkillInstallKeepsEmpty(cfg, skillName) ==
    LET installs == Omit(InstallsOf(cfg), skillName)
    IN  Assign(cfg, "skills", Assign(SkillsOf(cfg), "installs", installs))

removeSkillInstall(cfg, skillName) ==
    LET installs == Omit(InstallsOf(cfg), skillName)
    IN  Assign(cfg, "skills",
            Assign(SkillsOf(cfg), "installs",
                IF Cardinality(DOMAIN installs) > 0 THEN installs ELSE undefined))

\* ---- the configurations and records the ledger is exercised with
MaxOps == 2         \* ledger operations applied in a row
MaxClock == 2       \* the clock reads 1..MaxClock

SkillKeys == { <<"a">>, <<"a", "a">> }

ArchiveUrl == <<"gs://", "bucket/skills/s.tar.gz">>

\* Records written earlier, at time 0.
EarlierRecords ==
    { [source |-> "marketplace", version |-> "1.0.0", installedAt |-> 0],
      [source |-> "archive", version |-> "2.0.0", installedAt |-> 0] }

InstallMaps ==
    { m \in UNION {[ks -> EarlierRecords] : ks \in SUBSET SkillKeys} : DOMAIN m # {} }

SkillsObjects ==
    LET other == { EmptyObject, [f \in {"allowBundled"} |-> <<"github">>] }
    IN  other \cup { Assign(o, "installs", m) : o \in other, m \in InstallMaps }

Configs ==
    LET other == { EmptyObject, [f \in {"gateway"} |-> "gateway settings"] }
    IN  other \cup { Assign(o, "skills", sk) : o \in other, sk \in SkillsObjects }

\* The records callers pass: with and without archiveUrl and installedAt.
RecordParams ==
    LET base == { [source |-> "marketplace", version |-> "2.0.0", archiveUrl |-> ArchiveUrl],
                  [source |-> "archive", version |-> "1.0.0"] }
    IN  base \cup { Assign(r, "installedAt", 0) : r \in base }

\* ------------------------------------------- the gateway's marketplace API
\* The sub-paths requests are made to; at most one request per sub-path is in
\* flight.
Paths == {"/installed", "/install", "/uninstall", "/sync", "/other"}

Methods == {"GET", "POST"}

CatalogUrl == <<"gs://", "bucket/catalog.json">>

\* cfg.plugins.registry as the operator configured it.
Registries ==
    { [catalogUrl |-> CatalogUrl, authMethod |-> "token", authToken |-> "token"],
      [catalogUrl |-> CatalogUrl, authMethod |-> "gcloud-adc"] }

NoArchiveUrl == <<>>

\* MarketplaceSkillEntry and MarketplacePluginEntry, as far as they are read.
SkillEntry(name, version, archiveUrl) ==
    [name |-> name, version |-> version, archiveUrl |-> archiveUrl, npmSpec |-> <<>>]

PluginEntry(id, npmSpec, version) ==
    [name |-> id, version |-> version, archiveUrl |-> NoArchiveUrl, npmSpec |-> npmSpec]

NoEntry == SkillEntry(NoName, "", NoArchiveUrl)

PluginP == PluginEntry(<<"p">>, <<"@", "p">>, "2.0.0")

\* The catalog documents the remote end serves.
Catalogs ==
    { [skills |-> << SkillEntry(<<"a">>, "2.0.0", ArchiveUrl),
                     SkillEntry(<<"a", "a">>, "2.0.0", ArchiveUrl),
                     SkillEntry(<<".", "a">>, "1.0.0", ArchiveUrl) >>,
       plugins |-> << PluginP >>],
      [skills |-> << SkillEntry(<<"a">>, "1.0.0", ArchiveUrl),
                     SkillEntry(<<"a", "a">>, "2.0.0", NoArchiveUrl),
                     SkillEntry(<<"p">>, "1.0.0", ArchiveUrl) >>,
       plugins |-> << PluginP >>],
      [skills |-> << SkillEntry(<<"a", "a">>, "2.0.0", ArchiveUrl) >>,
       plugins |-> << >>] }

NoCatalog == [skills |-> <<>>, plugins |-> <<>>]

\* The install records a configuration on disk starts with.
MarketplaceRecord ==
    [source |-> "marketplace", version |-> "1.0.0", archiveUrl |-> ArchiveUrl,
     installedAt |-> 0]

ArchiveRecord == [source |-> "archive", version |-> "1.0.0", installedAt |-> 0]

PluginRecord == [source |-> "npm", spec |-> <<"@", "p">>, version |-> "1.0.0", installedAt |-> 0]

StoredSkillInstalls ==
    { [k \in {<<"a">>, <<"a", "a">>} |-> MarketplaceRecord],
      [k \in {<<"a">>, <<"a", "a">>} |-> IF k = <<"a">> THEN MarketplaceRecord ELSE ArchiveRecord] }

\* cfg.plugins: with or without a registry, with or without an installed plugin.
StoredPlugins ==
    LET installs == [k \in {<<"p">>} |-> PluginRecord]
    IN  { EmptyObject, [f \in {"installs"} |-> installs] }
        \cup { [f \in {"registry"} |-> r] : r \in Registries }
        \cup { [registry |-> r, installs |-> installs] : r \in Registries }

\* The configurations found on disk, each with the managed directory that goes
\* with it: every recorded skill has its directory.
StoredConfigs ==
    LET base == [gateway |-> "gateway settings"]
    IN  { Assign(base, "plugins", pl) : pl \in StoredPlugins }
        \cup { Assign(Assign(base, "plugins", pl), "skills", [f \in {"installs"} |-> m]) :
                 pl \in StoredPlugins, m \in StoredSkillInstalls }


VARIABLES
    inst,       \* inst[p]: the locals and position of p's install call
    managed,    \* the managed skills directory: [exists, dirs: name -> files]
    tmpDirs,    \* ids of the temp working directories that exist
    calls,      \* number of install calls made so far
    cfg,        \* the configuration value the ledger functions are applied to
    now,        \* what new Date() reads
    trail,      \* the ledger operations applied so far, each with its input
    req,        \* req[path]: the locals and position of the request to path
    disk,       \* the configuration file: what loadConfig reads
    remote,     \* the catalog document the remote end serves
    written,    \* the writeConfigFile calls so far: who wrote which value
    answered,   \* the answers sent so far
    rpc         \* the credential, registry or catalog call or the command in progress

installVars == <<inst, managed, tmpDirs, calls>>
ledgerVars == <<cfg, now, trail>>
httpVars == <<req, disk, remote, written, answered>>
authVars == <<rpc>>
vars == <<inst, managed, tmpDirs, calls, cfg, now, trail, req, disk, remote, written, answered, rpc>>

NoCall ==
    [pc |-> "idle", name |-> NoName, url |-> <<>>, authToken |-> "",
     tmpDir |-> 0, request |-> <<>>, response |-> NoResponse, body |-> EmptyDir,
     pending |-> "none", pendingValue |-> NoResult,
     archiveWritten |-> FALSE, extractDir |-> FALSE, extracted |-> EmptyDir,
     copied |-> {}, result |-> NoResult,
     fetchCalls |-> 0, handed |-> 0, releaseCalls |-> 0,
     cleanupCalls |-> 0, cleanupOk |-> FALSE,
     failedAt |-> "", before |-> [exists |-> FALSE, dirs |-> <<>>]]

\* A request that has not been made.
NoBody == [ok |-> TRUE, id |-> NoName, type |-> ""]

NoRequest ==
    [pc |-> "idle", method |-> "", body |-> NoBody, id |-> NoName, type |-> "",
     cfg |-> EmptyObject, catalog |-> NoCatalog, entry |-> NoEntry,
     next |-> EmptyObject, changed |-> FALSE, results |-> <<>>, queue |-> <<>>,
     status |-> 0, error |-> NoMessage, listed |-> {}, wrote |-> 0,
     authResult |-> "", authToken |-> "", invoked |-> <<>>, settled |-> <<>>, pluginChanged |-> FALSE,
     warnings |-> <<>>, catalogToken |-> "",
     before |-> [exists |-> FALSE, dirs |-> <<>>]]

\* JS null, the resolver's "no token".
null == "null"

\* No credential, registry or catalog call is in progress.
NoRpc ==
    [pc |-> "idle", fn |-> "", registry |-> EmptyObject, params |-> EmptyObject,
     metadata |-> EmptyObject, cli |-> EmptyObject, token |-> null, invoked |-> <<>>,
     request |-> EmptyObject, body |-> EmptyObject, kind |-> "", auth |-> EmptyObject,
     error |-> NoMessage,
     id |-> NoName, catalog |-> NoCatalog, entry |-> NoEntry, cfg |-> EmptyObject,
     next |-> EmptyObject, exit |-> -1]

NoRequests ==
    /\ req = [path \in Paths |-> NoRequest]
    /\ disk = EmptyObject
    /\ remote = NoCatalog
    /\ written = <<>>
    /\ answered = <<>>
    /\ rpc = NoRpc

\* Before the first call the managed directory does not exist, or it holds a
\* skill installed earlier.
InitialManaged ==
    { [exists |-> FALSE, dirs |-> <<>>],
      [exists |-> TRUE, dirs |-> [n \in {<<"a">>} |-> ArchiveA]] }

Init ==
    /\ inst = [p \in Procs |-> NoCall]
    /\ managed \in InitialManaged
    /\ tmpDirs = {}
    /\ calls = 0
    /\ cfg = EmptyObject
    /\ now = 1
    /\ trail = <<>>
    /\ NoRequests

\* ---- the managed directory
Without(dirs, name) == [n \in DOMAIN dirs \ {name} |-> dirs[n]]

WithDir(dirs, name, files) ==
    [n \in DOMAIN dirs \cup {name} |-> IF n = name THEN files ELSE dirs[n]]

FilesAt(dirs, name) == IF name \in DOMAIN dirs THEN dirs[name] ELSE EmptyDir

Restrict(files, keep) == [f \in keep |-> files[f]]

\* ------------------------------------------------ installSkillFromArchiveUrl
Me(p) == inst[p]

Goto(p, r) == inst' = [inst EXCEPT ![p] = r]

\* Mutation: the catch block returns without the finally block.
CatchWithoutFinally(p, step, msg) ==
    Goto(p, [Me(p) EXCEPT !.pc = "returned", !.result = Thrown(msg), !.failedAt = step])

\* The outer catch: { ok: false, error: message }, then the finally block.
Catch(p, step, msg) ==
    Goto(p, [Me(p) EXCEPT !.pc = "cleanup", !.result = Thrown(msg), !.failedAt = step])

\* Entry: validateSkillName in its own try/catch, then the path computations.
InstallCall(p, name, archiveUrl, authToken) ==
    /\ Me(p).pc = "idle"
    /\ calls' = calls + 1
    /\ LET call == [NoCall EXCEPT !.name = name, !.url = resolveGcsUrl(archiveUrl),
                                  !.authToken = authToken, !.before = managed]
           invalid == validateSkillName(name)
       IN  IF invalid # NoMessage
           THEN Goto(p, [call EXCEPT !.pc = "returned",
                                     !.result = Fail(invalid),
                                     !.failedAt = "validate"])
           ELSE Goto(p, [call EXCEPT !.pc = "mkdtemp"])
    /\ UNCHANGED <<managed, tmpDirs, ledgerVars, httpVars, authVars>>

\* fs.mkdtemp, outside the try block: it creates a directory whose name no
\* existing directory has; its error leaves the function as a rejected promise.
Mkdtemp(p) ==
    /\ Me(p).pc = "mkdtemp"
    /\ \/ LET created == CHOOSE n \in 1..(Cardinality(tmpDirs) + 1) :
                             /\ n \notin tmpDirs
                             /\ \A m \in 1..(n - 1) : m \in tmpDirs
          IN  /\ Goto(p, [Me(p) EXCEPT !.pc = "fetch", !.tmpDir = created])
              /\ tmpDirs' = tmpDirs \cup {created}
       \/ /\ Goto(p, [Me(p) EXCEPT !.pc = "rejected", !.failedAt = "mkdtemp"])
          /\ UNCHANGED tmpDirs
    /\ UNCHANGED <<managed, calls, ledgerVars, httpVars, authVars>>

\* init.headers is set only for a truthy authToken.
RequestInit(authToken) == IF authToken # "" THEN <<"Bearer", authToken>> ELSE <<>>

\* fetchWithSsrFGuard({url, init, timeoutMs}): hands over a response and
\* release, or throws.  url and authToken are not used after this call.
Fetch(p) ==
    /\ Me(p).pc = "fetch"
    /\ LET sent == [Me(p) EXCEPT !.request = <<Me(p).url, RequestInit(Me(p).authToken)>>,
                                 !.url = <<>>, !.authToken = "",
                                 !.fetchCalls = @ + 1]
       IN  \/ \E r \in Responses, b \in Archives :
                Goto(p, [sent EXCEPT !.pc = "status", !.response = r, !.handed = @ + 1,
                                     !.body = IF r.ok THEN b ELSE EmptyDir])
           \/ \E e \in FetchErrors :
                Goto(p, [sent EXCEPT !.pc = "cleanup", !.result = Thrown(e),
                                     !.failedAt = "fetch"])
    /\ UNCHANGED <<managed, tmpDirs, calls, ledgerVars, httpVars, authVars>>

\* Mutation: the early return is outside the try/finally that releases.
CheckStatusReturnsUnreleased(p) ==
    /\ Me(p).pc = "status"
    /\ IF ~Me(p).response.ok
       THEN Goto(p, [Me(p) EXCEPT !.pc = "cleanup",
                        !.result = Fail(DownloadFailed(Me(p).response)),
                        !.failedAt = "status"])
       ELSE Goto(p, [Me(p) EXCEPT !.pc = "body"])
    /\ UNCHANGED <<managed, tmpDirs, calls, ledgerVars, httpVars, authVars>>

\* if (!response.ok) return {...}: the return waits for the inner finally.
CheckStatus(p) ==
    /\ Me(p).pc = "status"
    /\ IF ~Me(p).response.ok
       THEN Goto(p, [Me(p) EXCEPT !.pc = "release", !.pending = "return",
                        !.pendingValue = Fail(DownloadFailed(Me(p).response)),
                        !.failedAt = "status"])
       ELSE Goto(p, [Me(p) EXCEPT !.pc = "body"])
    /\ UNCHANGED <<managed, tmpDirs, calls, ledgerVars, httpVars, authVars>>

\* await response.arrayBuffer()
ReadBody(p) ==
    /\ Me(p).pc = "body"
    /\ \/ Goto(p, [Me(p) EXCEPT !.pc = "write"])
       \/ Goto(p, [Me(p) EXCEPT !.pc = "release", !.pending = "throw",
                      !.pendingValue = Thrown("body read failed"), !.failedAt = "body"])
    /\ UNCHANGED <<managed, tmpDirs, calls, ledgerVars, httpVars, authVars>>

\* await fs.writeFile(archivePath, ...)
WriteArchive(p) ==
    /\ Me(p).pc = "write"
    /\ \/ Goto(p, [Me(p) EXCEPT !.pc = "release", !.archiveWritten = TRUE])
       \/ Goto(p, [Me(p) EXCEPT !.pc = "release", !.pending = "throw",
                      !.pendingValue = Thrown("write failed"), !.failedAt = "write"])
    /\ UNCHANGED <<managed, tmpDirs, calls, ledgerVars, httpVars, authVars>>

\* finally { await release() }: then the pending return or throw goes on,
\* unless release itself throws.  The response is not used after release.
Release(p) ==
    /\ Me(p).pc = "release"
    /\ LET released == [Me(p) EXCEPT !.releaseCalls = @ + 1,
                                     !.request = <<>>, !.response = NoResponse]
       IN  \/ IF Me(p).pending = "none"
              THEN Goto(p, [released EXCEPT !.pc = "ensureExtractDir"])
              ELSE Goto(p, [released EXCEPT !.pc = "cleanup",
                                            !.result = Me(p).pendingValue])
           \/ Goto(p, [released EXCEPT !.pc = "cleanup",
                          !.result = Thrown("release failed"),
                          !.failedAt = "release"])
    /\ UNCHANGED <<managed, tmpDirs, calls, ledgerVars, httpVars, authVars>>

\* await ensureDir(extractDir)
EnsureExtractDir(p) ==
    /\ Me(p).pc = "ensureExtractDir"
    /\ \/ Goto(p, [Me(p) EXCEPT !.pc = "extract", !.extractDir = TRUE])
       \/ Catch(p, "ensureExtractDir", "mkdir failed")
    /\ UNCHANGED <<managed, tmpDirs, calls, ledgerVars, httpVars, authVars>>

\* await extractArchive({... stripComponents: 1}): the staging directory gets
\* the archive's files, or the extractor throws (bad archive, timeout); what
\* it has put into the staging directory by then is never read.
Extract(p) ==
    /\ Me(p).pc = "extract"
    /\ \/ Goto(p, [Me(p) EXCEPT !.pc = "stat", !.extracted = Me(p).body])
       \/ Catch(p, "extract", "extract failed")
    /\ UNCHANGED <<managed, tmpDirs, calls, ledgerVars, httpVars, authVars>>

\* Mutation: the old target is removed before the marker is checked.
StatMarkerAfterRemoval(p) ==
    /\ Me(p).pc = "stat"
    /\ managed' = [managed EXCEPT !.dirs = Without(@, Me(p).name)]
    /\ IF SkillMd \notin DOMAIN Me(p).extracted
       THEN Goto(p, [Me(p) EXCEPT !.pc = "cleanup", !.result = Fail(NoSkillMd),
                                  !.failedAt = "stat"])
       ELSE Goto(p, [Me(p) EXCEPT !.pc = "rmTarget"])
    /\ UNCHANGED <<tmpDirs, calls, ledgerVars, httpVars, authVars>>

\* try { await fs.stat(skillMdPath) } catch { return {...} }
StatMarker(p) ==
    /\ Me(p).pc = "stat"
    /\ \E statThrows \in BOOLEAN :
         /\ SkillMd \notin DOMAIN Me(p).extracted => statThrows
         /\ IF statThrows
            THEN Goto(p, [Me(p) EXCEPT !.pc = "cleanup", !.result = Fail(NoSkillMd),
                                       !.failedAt = "stat"])
            ELSE Goto(p, [Me(p) EXCEPT !.pc = "rmTarget"])
    /\ UNCHANGED <<managed, tmpDirs, calls, ledgerVars, httpVars, authVars>>

\* Mutation: the existing target is not removed before the copy.
RmTargetSkipped(p) ==
    /\ Me(p).pc = "rmTarget"
    /\ Goto(p, [Me(p) EXCEPT !.pc = "ensureManaged"])
    /\ UNCHANGED <<managed, tmpDirs, calls, ledgerVars, httpVars, authVars>>

\* await fs.rm(targetDir, { recursive: true, force: true }): the directory is
\* gone, or rm throws after it removed some of the files (or none).
RmTarget(p) ==
    /\ Me(p).pc = "rmTarget"
    /\ \/ /\ managed' = [managed EXCEPT !.dirs = Without(@, Me(p).name)]
          /\ Goto(p, [Me(p) EXCEPT !.pc = "ensureManaged"])
       \/ /\ \E kept \in SUBSET DOMAIN FilesAt(managed.dirs, Me(p).name) :
               managed' = IF Me(p).name \in DOMAIN managed.dirs
                          THEN [managed EXCEPT !.dirs[Me(p).name] = Restrict(@, kept)]
                          ELSE managed
          /\ Catch(p, "rmTarget", "rm failed")
    /\ UNCHANGED <<tmpDirs, calls, ledgerVars, httpVars, authVars>>

\* await ensureDir(managedSkillsDir)
EnsureManaged(p) ==
    /\ Me(p).pc = "ensureManaged"
    /\ \/ /\ managed' = [managed EXCEPT !.exists = TRUE]
          /\ Goto(p, [Me(p) EXCEPT !.pc = "cp"])
       \/ /\ Catch(p, "ensureManaged", "mkdir failed")
          /\ UNCHANGED managed
    /\ UNCHANGED <<tmpDirs, calls, ledgerVars, httpVars, authVars>>

\* await fs.cp(extractDir, targetDir, { recursive: true }) copies the staged
\* files one by one into the target, creating it when absent.
CpFile(p) ==
    /\ Me(p).pc = "cp"
    /\ \E f \in DOMAIN Me(p).extracted \ Me(p).copied :
         /\ managed' = [managed EXCEPT !.dirs =
                          WithDir(@, Me(p).name,
                                  [g \in DOMAIN FilesAt(@, Me(p).name) \cup {f} |->
                                      IF g = f THEN Me(p).extracted[f]
                                      ELSE FilesAt(@, Me(p).name)[g]])]
         /\ Goto(p, [Me(p) EXCEPT !.copied = @ \cup {f}])
    /\ UNCHANGED <<tmpDirs, calls, ledgerVars, httpVars, authVars>>

\* ... and throws when a file cannot be copied,
CpFail(p) ==
    /\ Me(p).pc = "cp"
    /\ Me(p).copied # DOMAIN Me(p).extracted
    /\ Catch(p, "cp", "cp failed")
    /\ UNCHANGED <<managed, tmpDirs, calls, ledgerVars, httpVars, authVars>>

\* ... or resolves: return { ok: true, skillName: name, targetDir }.
CpDone(p) ==
    /\ Me(p).pc = "cp"
    /\ Me(p).copied = DOMAIN Me(p).extracted
    /\ Goto(p, [Me(p) EXCEPT !.pc = "cleanup", !.result = Success(Me(p).name)])
    /\ UNCHANGED <<managed, tmpDirs, calls, ledgerVars, httpVars, authVars>>

\* finally { await fs.rm(tmpDir, {recursive, force}).catch(() => {}) }
Cleanup(p) ==
    /\ Me(p).pc = "cleanup"
    /\ \/ /\ tmpDirs' = tmpDirs \ {Me(p).tmpDir}
          /\ Goto(p, [Me(p) EXCEPT !.pc = "returned", !.cleanupCalls = @ + 1,
                                   !.cleanupOk = TRUE])
       \/ /\ UNCHANGED tmpDirs
          /\ Goto(p, [Me(p) EXCEPT !.pc = "returned", !.cleanupCalls = @ + 1])
    /\ UNCHANGED <<managed, calls, ledgerVars, httpVars, authVars>>

\* The caller takes the result (or the exception).
Finish(p) ==
    /\ Me(p).pc \in {"returned", "rejected"}
    /\ Goto(p, NoCall)
    /\ UNCHANGED <<managed, tmpDirs, calls, ledgerVars, httpVars, authVars>>

AuthTokens == {"", "token"}

NoOtherCall(p) == \A q \in Procs \ {p} : inst[q].pc = "idle"

Start(p) ==
    /\ NoOtherCall(p)
    /\ calls < MaxCalls
    /\ \E name \in Names, archiveUrl \in Urls, authToken \in AuthTokens :
         InstallCall(p, name, archiveUrl, authToken)

Next ==
    \E p \in Procs :
        \/ Start(p)
        \/ Mkdtemp(p)
        \/ Fetch(p)
        \/ CheckStatus(p)
        \/ ReadBody(p)
        \/ WriteArchive(p)
        \/ Release(p)
        \/ EnsureExtractDir(p)
        \/ Extract(p)
        \/ StatMarker(p)
        \/ RmTarget(p)
        \/ EnsureManaged(p)
        \/ CpFile(p)
        \/ CpFail(p)
        \/ CpDone(p)
        \/ Cleanup(p)
        \/ Finish(p)

Spec == Init /\ [][Next]_vars

\* ---- two installs of the same skill at the same time
\* Each caller installs skill "a" once, without waiting for the other (the
\* function takes no lock); the archives they download may differ.
SameNameInstall(p) ==
    /\ calls < Cardinality(Procs)
    /\ InstallCall(p, <<"a">>, ArchiveUrl, "")

NextRace ==
    \E p \in Procs :
        \/ SameNameInstall(p)
        \/ Mkdtemp(p)
        \/ Fetch(p)
        \/ CheckStatus(p)
        \/ ReadBody(p)
        \/ WriteArchive(p)
        \/ Release(p)
        \/ EnsureExtractDir(p)
        \/ Extract(p)
        \/ StatMarker(p)
        \/ RmTarget(p)
        \/ EnsureManaged(p)
        \/ CpFile(p)
        \/ CpFail(p)
        \/ CpDone(p)
        \/ Cleanup(p)
        \/ Finish(p)

SpecRace == Init /\ [][NextRace]_vars

\* ------------------------------------------- the ledger functions applied
InitLedger ==
    /\ inst = [p \in Procs |-> NoCall]
    /\ managed = [exists |-> FALSE, dirs |-> <<>>]
    /\ tmpDirs = {}
    /\ calls = 0
    /\ cfg \in Configs
    /\ now = 1
    /\ trail = <<>>
    /\ NoRequests

RecordSkillInstall(params) ==
    /\ Len(trail) < MaxOps
    /\ cfg' = recordSkillInstall(cfg, params, now)
    /\ trail' = Append(trail, [op |-> "record", key |-> params["skillName"],
                               params |-> params, at |-> now, input |-> cfg])
    /\ UNCHANGED <<now, installVars, httpVars, authVars>>

RemoveSkillInstall(skillName) ==
    /\ Len(trail) < MaxOps
    /\ cfg' = removeSkillInstall(cfg, skillName)
    /\ trail' = Append(trail, [op |-> "remove", key |-> skillName,
                               params |-> EmptyObject, at |-> now, input |-> cfg])
    /\ UNCHANGED <<now, installVars, httpVars, authVars>>

\* Time passes between two calls.
Tick ==
    /\ now < MaxClock
    /\ now' = now + 1
    /\ UNCHANGED <<cfg, trail, installVars, httpVars, authVars>>

NextLedger ==
    \/ \E k \in SkillKeys, r \in RecordParams : RecordSkillInstall(Assign(r, "skillName", k))
    \/ \E k \in SkillKeys : RemoveSkillInstall(k)
    \/ Tick

SpecLedger == InitLedger /\ [][NextLedger]_vars

\* ------------------------------------------- the marketplace HTTP handlers
\* ---- reads of a configuration value
PluginsOf(c) == IF "plugins" \in DOMAIN c THEN c["plugins"] ELSE EmptyObject

\* cfg.plugins?.registry
RegistryOf(c) ==
    IF "registry" \in DOMAIN PluginsOf(c) THEN PluginsOf(c)["registry"] ELSE EmptyObject

\* registry?.catalogUrl is truthy
HasCatalogUrl(c) == "catalogUrl" \in DOMAIN RegistryOf(c)

\* cfg.plugins?.installs ?? {}
PluginInstallsOf(c) ==
    IF "installs" \in DOMAIN PluginsOf(c) THEN PluginsOf(c)["installs"] ELSE EmptyObject

\* The token sent with the archive download: resolveGarAuthToken() for
\* 'gcloud-adc' (garToken, "" when it resolves to null), the static token for
\* 'token', none otherwise.
resolveMarketplaceAuthToken(c, garToken) ==
    LET registry == RegistryOf(c)
        authMethod == IF "authMethod" \in DOMAIN registry THEN registry["authMethod"] ELSE ""
    IN  IF authMethod = "gcloud-adc" THEN garToken
        ELSE IF authMethod = "token" /\ "authToken" \in DOMAIN registry
             THEN registry["authToken"]
             ELSE ""

\* The token fetchCatalogWithAuth sends with the catalog fetch for the
\* parameters the handlers build from cfg.plugins.registry: the static token
\* when it is set, else resolveGarAuthToken() for 'gcloud-adc' (garToken, ""
\* when it resolves to null), else none.
fetchCatalogAuthToken(c, garToken) ==
    LET registry == RegistryOf(c)
        authMethod == IF "authMethod" \in DOMAIN registry THEN registry["authMethod"] ELSE ""
        token == IF "authToken" \in DOMAIN registry THEN registry["authToken"] ELSE ""
    IN  IF token = "" /\ authMethod = "gcloud-adc" THEN garToken ELSE token

\* String.prototype.trim
trim(s) ==
    LET solid == { i \in 1..Len(s) : s[i] # " " }
    IN  IF solid = {} THEN <<>>
        ELSE SubSeq(s, CHOOSE i \in solid : \A j \in solid : i <= j,
                       CHOOSE i \in solid : \A j \in solid : i >= j)

\* Array.prototype.find by name: the first entry with that name.
Matching(entries, name) == { i \in 1..Len(entries) : entries[i].name = name }

find(entries, name) ==
    IF Matching(entries, name) = {} THEN NoEntry
    ELSE entries[CHOOSE i \in Matching(entries, name) : \A j \in Matching(entries, name) : i <= j]

\* catalog.plugins.find((p) => p.id === id || p.npmSpec === id)
MatchingPlugin(entries, id) ==
    { i \in 1..Len(entries) : entries[i].name = id \/ entries[i].npmSpec = id }

findPlugin(entries, id) ==
    IF MatchingPlugin(entries, id) = {} THEN NoEntry
    ELSE entries[CHOOSE i \in MatchingPlugin(entries, id) :
                     \A j \in MatchingPlugin(entries, id) : i <= j]

\* The orders in which Object.entries can list the keys of an object.
Enumerations(S) ==
    { q \in [1..Cardinality(S) -> S] : { q[i] : i \in 1..Cardinality(S) } = S }

\* One element of the results array of a sync.
Outcome(id, type, status, from, to, version, error) ==
    [id |-> id, type |-> type, status |-> status, from |-> from, to |-> to,
     version |-> version, error |-> error]

\* Object.entries(cfg.skills?.installs ?? {}).filter(source === "marketplace")
marketplaceSkills(c) ==
    { k \in DOMAIN InstallsOf(c) : InstallsOf(c)[k]["source"] = "marketplace" }

\* What GET /installed lists.
InstalledList(c) ==
    { [name |-> k, type |-> "skill", source |-> InstallsOf(c)[k]["source"],
       version |-> InstallsOf(c)[k]["version"],
       installedAt |-> InstallsOf(c)[k]["installedAt"]] : k \in DOMAIN InstallsOf(c) }
    \cup
    { [name |-> k, type |-> "plugin", source |-> PluginInstallsOf(c)[k]["source"],
       version |-> PluginInstallsOf(c)[k]["version"],
       installedAt |-> PluginInstallsOf(c)[k]["installedAt"]] : k \in DOMAIN PluginInstallsOf(c) }

\* ---- the collaborators for npm plugins
\* updateNpmInstalledPlugins({config}): every installed plugin is left as it
\* is or re-installed at the registry's version; changed tells whether any was.
updateNpmInstalledPlugins(c) ==
    LET installs == PluginInstallsOf(c)
        Updated(U) == [k \in DOMAIN installs |->
                          IF k \in U THEN [installs[k] EXCEPT !.version = "2.0.0"]
                          ELSE installs[k]]
    IN  { [config |-> IF U = {} THEN c
                      ELSE Assign(c, "plugins", Assign(PluginsOf(c), "installs", Updated(U))),
           changed |-> U # {},
           outcomes |-> [i \in DOMAIN order |->
                           IF order[i] \in U
                           THEN Outcome(order[i], "plugin", "updated", "1.0.0", "2.0.0", "", NoMessage)
                           ELSE Outcome(order[i], "plugin", "unchanged", "1.0.0", "", "", NoMessage)]]
          : U \in SUBSET DOMAIN installs, order \in Enumerations(DOMAIN installs) }

\* enablePluginInConfig, then recordPluginInstall with the npm record fields.
recordPluginInstall(c, entry, nowIso) ==
    LET entries == IF "entries" \in DOMAIN PluginsOf(c) THEN PluginsOf(c)["entries"]
                   ELSE EmptyObject
        enabled == Assign(PluginsOf(c), "entries",
                          Assign(entries, entry.name, [enabled |-> TRUE]))
        record == [source |-> "npm", spec |-> entry.npmSpec, version |-> entry.version,
                   installedAt |-> nowIso]
    IN  Assign(c, "plugins",
            Assign(enabled, "installs", Assign(PluginInstallsOf(c), entry.name, record)))

\* uninstallPlugin({config, pluginId}).config: the install record is dropped.
uninstallPlugin(c, pluginId) ==
    Assign(c, "plugins", Assign(PluginsOf(c), "installs", Omit(PluginInstallsOf(c), pluginId)))

\* writeConfigFile(next): what loadConfig reads afterwards.
Stored(next) ==
    IF "skills" \in DOMAIN next /\ "installs" \in DOMAIN next["skills"]
       /\ DOMAIN next["skills"]["installs"] = DOMAIN undefined
    THEN Assign(next, "skills", Omit(next["skills"], "installs"))
    ELSE next

\* ---- requests
\* The JSON bodies sent with POST /install and POST /uninstall; ok is false
\* for a body readJsonBodyOrError rejects.
RequestIds == { <<>>, <<"a">>, <<"a", " ">>, <<"a", "a">>, <<".", "a">>, <<"p">>, <<"z">> }

RequestTypes == { "", "skill", "plugin" }

RequestBodies ==
    { [ok |-> TRUE, id |-> i, type |-> t] : i \in RequestIds, t \in RequestTypes }
    \cup { [ok |-> FALSE, id |-> NoName, type |-> ""] }

BodiesFor(path) == IF path \in {"/install", "/uninstall"} THEN RequestBodies ELSE {NoBody}

Rq(path) == req[path]

SetReq(path, r) == req' = [req EXCEPT ![path] = r]

\* sendJson and its wrappers: the answer goes out and the handler returns.
Answer(path, r, status, error) ==
    /\ req' = [req EXCEPT ![path] = [r EXCEPT !.pc = "answered", !.status = status,
                                              !.error = error]]
    /\ answered' = Append(answered, [path |-> path, id |-> r.id, type |-> r.type,
                                     status |-> status, listed |-> r.listed])

\* handleMarketplaceHttpRequest up to its await of authorizeHttpGatewayConnect.
HttpRequest(path, method, body) ==
    /\ Rq(path).pc = "idle"
    /\ SetReq(path, [NoRequest EXCEPT !.pc = "auth", !.method = method, !.body = body,
                                      !.before = managed])
    /\ UNCHANGED <<disk, remote, written, answered, installVars, ledgerVars, authVars>>

\* Mutation: the result of the authorization is not looked at.
AuthorizeUnchecked(path) ==
    /\ Rq(path).pc = "auth"
    /\ \E ok \in BOOLEAN :
         /\ SetReq(path, [Rq(path) EXCEPT !.authResult = IF ok THEN "ok" ELSE "failed",
                                           !.pc = "authorized"])
         /\ UNCHANGED answered
    /\ UNCHANGED <<disk, remote, written, installVars, ledgerVars, authVars>>

\* authorizeHttpGatewayConnect settles; if (!authResult.ok) the auth failure is
\* sent and the request ends, otherwise the switch on the sub-path follows.
Authorize(path) ==
    /\ Rq(path).pc = "auth"
    /\ \E ok \in BOOLEAN :
         IF ~ok
         THEN Answer(path, [Rq(path) EXCEPT !.authResult = "failed"], 401, <<"unauthorized">>)
         ELSE /\ SetReq(path, [Rq(path) EXCEPT !.authResult = "ok", !.pc = "authorized"])
              /\ UNCHANGED answered
    /\ UNCHANGED <<disk, remote, written, installVars, ledgerVars, authVars>>

\* The default branch of the switch: the request is not handled here.
Unhandled ==
    /\ Rq("/other").pc = "authorized"
    /\ SetReq("/other", [Rq("/other") EXCEPT !.pc = "unhandled"])
    /\ UNCHANGED <<disk, remote, written, answered, installVars, ledgerVars, authVars>>

\* GET /installed, after authorization.
handleInstalled ==
    LET r == Rq("/installed")
    IN  /\ r.pc = "authorized"
        /\ IF r.method # "GET"
           THEN Answer("/installed", r, 405, <<"Method Not Allowed">>)
           ELSE Answer("/installed", [r EXCEPT !.listed = InstalledList(disk)], 200, NoMessage)
        /\ UNCHANGED <<disk, remote, written, installVars, ledgerVars, authVars>>

\* POST /install and POST /uninstall, after authorization: the method check,
\* then the await of readJsonBodyOrError.
handleBody(path) ==
    LET r == Rq(path)
    IN  /\ path \in {"/install", "/uninstall"}
        /\ r.pc = "authorized"
        /\ IF r.method # "POST"
           THEN Answer(path, r, 405, <<"Method Not Allowed">>)
           ELSE /\ SetReq(path, [r EXCEPT !.pc = "body"])
                /\ UNCHANGED answered
        /\ UNCHANGED <<disk, remote, written, installVars, ledgerVars, authVars>>

\* handleInstall from the body to the await of fetchCatalogWithAuth.
handleInstall ==
    LET r == Rq("/install")
        id == trim(r.body.id)
        in == [r EXCEPT !.id = id, !.type = r.body.type]
    IN  /\ r.pc = "body"
        /\ IF ~r.body.ok
           THEN Answer("/install", r, 400, <<"invalid body">>)
           ELSE IF id = <<>>
           THEN Answer("/install", in, 400, <<"Missing 'id' in request body">>)
           ELSE IF ~HasCatalogUrl(disk)
           THEN Answer("/install", [in EXCEPT !.cfg = disk], 500,
                       <<"No marketplace catalog configured">>)
           ELSE /\ SetReq("/install", [in EXCEPT !.cfg = disk, !.pc = "catalog"])
                /\ UNCHANGED answered
        /\ UNCHANGED <<disk, remote, written, installVars, ledgerVars, authVars>>

\* fetchCatalogWithAuth settles; the entry is looked up and the install
\* dispatched, up to the first await of doInstallSkill or doInstallPlugin.
handleInstallCatalog ==
    LET r == Rq("/install")
        skillEntry == find(remote.skills, r.id)
        pluginEntry == findPlugin(remote.plugins, r.id)
        hasSkill == Matching(remote.skills, r.id) # {}
        hasPlugin == MatchingPlugin(remote.plugins, r.id) # {}
        Skill(got) == IF skillEntry.archiveUrl = NoArchiveUrl
                      THEN Answer("/install", [got EXCEPT !.entry = skillEntry], 400,
                                  <<"Skill has no archive URL">>)
                      ELSE /\ SetReq("/install", [got EXCEPT !.entry = skillEntry, !.pc = "install",
                                                           !.invoked = <<skillEntry.name>>])
                           /\ UNCHANGED answered
        Plugin(got) == /\ SetReq("/install", [got EXCEPT !.entry = pluginEntry, !.pc = "plugin"])
                       /\ UNCHANGED answered
    IN  /\ r.pc = "catalog"
        /\ \/ Answer("/install", r, 502, <<"Failed to fetch catalog:", "fetch failed">>)
           \/ \E garToken \in AuthTokens :
                LET got == [r EXCEPT !.catalog = remote,
                                     !.catalogToken = fetchCatalogAuthToken(r.cfg, garToken)]
                IN  IF r.type = "skill" /\ hasSkill THEN Skill(got)
                    ELSE IF r.type = "plugin" /\ hasPlugin THEN Plugin(got)
                    ELSE IF hasPlugin THEN Plugin(got)
                    ELSE IF hasSkill THEN Skill(got)
                    ELSE Answer("/install", got, 404, <<"not found in catalog">>)
        /\ UNCHANGED <<disk, remote, written, installVars, ledgerVars, authVars>>

\* doInstallSkill: resolveMarketplaceAuthToken, then the call of
\* installSkillFromArchiveUrl({name, archiveUrl, authToken}).
doInstallSkillCall ==
    LET r == Rq("/install")
    IN  /\ r.pc = "install"
        /\ \E garToken \in AuthTokens :
             InstallCall("install", r.entry.name, r.entry.archiveUrl,
                         resolveMarketplaceAuthToken(r.cfg, garToken))

\* Mutation: the result of the installer is not looked at.
doInstallSkillIgnoresResult ==
    LET r == Rq("/install")
        result == inst["install"].result
        settled == [name |-> r.entry.name, threw |-> inst["install"].pc = "rejected",
                    result |-> result, failedAt |-> inst["install"].failedAt]
    IN  /\ r.pc = "install"
        /\ inst["install"].pc \in {"returned", "rejected"}
        /\ inst' = [inst EXCEPT !["install"] = NoCall]
        /\ SetReq("/install",
               [r EXCEPT !.pc = "write",
                         !.settled = <<settled>>,
                         !.next = recordSkillInstall(r.cfg,
                             [skillName |-> r.entry.name, source |-> "marketplace",
                              version |-> r.entry.version,
                              archiveUrl |-> r.entry.archiveUrl], now)])
        /\ UNCHANGED <<disk, remote, written, answered, managed, tmpDirs, calls, ledgerVars, authVars>>

\* doInstallSkill after the installer settled: 500 with its error, or the
\* record is added to the configuration loaded at the start.
doInstallSkill ==
    LET r == Rq("/install")
        result == inst["install"].result
        settled == [name |-> r.entry.name, threw |-> inst["install"].pc = "rejected",
                    result |-> result, failedAt |-> inst["install"].failedAt]
    IN  /\ r.pc = "install"
        /\ inst["install"].pc \in {"returned", "rejected"}
        /\ inst' = [inst EXCEPT !["install"] = NoCall]
        /\ IF inst["install"].pc = "rejected"
           THEN /\ SetReq("/install", [r EXCEPT !.pc = "rejected", !.settled = <<settled>>])
                /\ UNCHANGED answered
           ELSE IF ~result.ok
           THEN Answer("/install", [r EXCEPT !.settled = <<settled>>], 500, result.error)
           ELSE /\ SetReq("/install",
                     [r EXCEPT !.pc = "write",
                               !.settled = <<settled>>,
                               !.next = recordSkillInstall(r.cfg,
                                   [skillName |-> r.entry.name, source |-> "marketplace",
                                    version |-> r.entry.version,
                                    archiveUrl |-> r.entry.archiveUrl], now)])
                /\ UNCHANGED answered
        /\ UNCHANGED <<disk, remote, written, managed, tmpDirs, calls, ledgerVars, authVars>>

\* plugins.entries of a configuration.
EntriesOf(c) ==
    IF "entries" \in DOMAIN PluginsOf(c) THEN PluginsOf(c)["entries"] ELSE EmptyObject

\* buildPluginStatusReport({config}).plugins: the installed plugins in a fixed
\* order, each with the kind its manifest declares and whether the
\* configuration enables it.
buildPluginStatusReport(c) ==
    LET known == << <<"p">>, <<"m">>, <<"n">>, <<"o">> >>
        kindOf(id) == IF id = <<"p">> THEN "tool" ELSE "memory"
        listed == SelectSeq(known, LAMBDA id : id \in DOMAIN PluginInstallsOf(c))
    IN  [i \in 1..Len(listed) |->
            [id |-> listed[i], kind |-> kindOf(listed[i]),
             enabled |-> listed[i] \in DOMAIN EntriesOf(c) /\ EntriesOf(c)[listed[i]].enabled]]

\* applyExclusiveSlotSelection({config, selectedId, selectedKind, registry}):
\* for the exclusive kind every other enabled plugin of that kind is disabled
\* with one warning each; other kinds pass through.
applyExclusiveSlotSelection(c, selectedId, selectedKind, registry) ==
    LET demoted == SelectSeq(registry, LAMBDA q : /\ q.kind = selectedKind
                                                  /\ q.id # selectedId
                                                  /\ q.enabled)
        ids == { demoted[i].id : i \in 1..Len(demoted) }
        entries == [id \in DOMAIN EntriesOf(c) |->
                       IF id \in ids THEN [enabled |-> FALSE] ELSE EntriesOf(c)[id]]
    IN  IF selectedKind # "memory" \/ demoted = <<>>
        THEN [config |-> c, warnings |-> <<>>]
        ELSE [config |-> Assign(c, "plugins", Assign(PluginsOf(c), "entries", entries)),
              warnings |-> [i \in 1..Len(demoted) |->
                              [text |-> "disabled", id |-> demoted[i].id]]]

\* Mutation: the recorded configuration is written without the slot selection.
doInstallPluginWithoutSlots ==
    LET r == Rq("/install")
    IN  /\ r.pc = "plugin"
        /\ \/ Answer("/install", r, 500, <<"npm install failed">>)
           \/ /\ SetReq("/install", [r EXCEPT !.pc = "write",
                                              !.next = recordPluginInstall(r.cfg, r.entry, now)])
              /\ UNCHANGED answered
        /\ UNCHANGED <<disk, remote, written, installVars, ledgerVars, authVars>>

\* doInstallPlugin: installPluginFromNpmSpec fails (500) or succeeds, and then
\* the plugin is enabled and recorded and the exclusive slot selection is
\* applied when the status report lists the plugin.
doInstallPlugin ==
    LET r == Rq("/install")
        recorded == recordPluginInstall(r.cfg, r.entry, now)
        report == buildPluginStatusReport(recorded)
        plugin == SelectSeq(report, LAMBDA q : q.id = r.entry.name)
        slotResult == IF plugin # <<>>
                      THEN applyExclusiveSlotSelection(recorded, plugin[1].id, plugin[1].kind, report)
                      ELSE [config |-> recorded, warnings |-> <<>>]
    IN  /\ r.pc = "plugin"
        /\ \/ Answer("/install", r, 500, <<"npm install failed">>)
           \/ /\ SetReq("/install", [r EXCEPT !.pc = "write",
                                              !.next = slotResult.config,
                                              !.warnings = slotResult.warnings])
              /\ UNCHANGED answered
        /\ UNCHANGED <<disk, remote, written, installVars, ledgerVars, authVars>>

\* Mutation: the write starts from the file as it is now and applies only the
\* records this request changed in its snapshot.
writeConfigFileMerging(path) ==
    LET r == Rq(path)
        mine == { k \in DOMAIN InstallsOf(r.cfg) \cup DOMAIN InstallsOf(r.next) :
                     \/ k \notin DOMAIN InstallsOf(r.cfg)
                     \/ k \notin DOMAIN InstallsOf(r.next)
                     \/ InstallsOf(r.cfg)[k] # InstallsOf(r.next)[k] }
        merged == [k \in (DOMAIN InstallsOf(disk) \ mine) \cup (DOMAIN InstallsOf(r.next) \cap mine) |->
                     IF k \in mine THEN InstallsOf(r.next)[k] ELSE InstallsOf(disk)[k]]
        value == Assign(r.next, "skills", Assign(SkillsOf(r.next), "installs", merged))
    IN  /\ r.pc = "write"
        /\ disk' = Stored(value)
        /\ written' = Append(written, [by |-> path, value |-> value])
        /\ Answer(path, [r EXCEPT !.wrote = @ + 1], 200, NoMessage)
        /\ UNCHANGED <<remote, installVars, ledgerVars, authVars>>

\* await writeConfigFile(next), then the 200 answer.
writeConfigFile(path) ==
    LET r == Rq(path)
    IN  /\ r.pc = "write"
        /\ disk' = Stored(r.next)
        /\ written' = Append(written, [by |-> path, value |-> r.next])
        /\ Answer(path, [r EXCEPT !.wrote = @ + 1], 200, NoMessage)
        /\ UNCHANGED <<remote, installVars, ledgerVars, authVars>>

\* handleUninstall from the body to its first await.
handleUninstall ==
    LET r == Rq("/uninstall")
        id == trim(r.body.id)
        in == [r EXCEPT !.id = id, !.type = r.body.type]
    IN  /\ r.pc = "body"
        /\ IF ~r.body.ok
           THEN Answer("/uninstall", r, 400, <<"invalid body">>)
           ELSE IF id = <<>>
           THEN Answer("/uninstall", in, 400, <<"Missing 'id' in request body">>)
           ELSE IF r.body.type \notin {"plugin", "skill"}
           THEN Answer("/uninstall", in, 400, <<"Missing or invalid 'type'">>)
           ELSE IF r.body.type = "skill"
           THEN IF id \notin DOMAIN InstallsOf(disk)
                THEN Answer("/uninstall", [in EXCEPT !.cfg = disk], 404,
                            <<"Skill is not installed">>)
                ELSE /\ SetReq("/uninstall", [in EXCEPT !.cfg = disk, !.pc = "rm"])
                     /\ UNCHANGED answered
           ELSE /\ SetReq("/uninstall", [in EXCEPT !.cfg = disk, !.pc = "plugin"])
                /\ UNCHANGED answered
        /\ UNCHANGED <<disk, remote, written, installVars, ledgerVars, authVars>>

\* Mutation: the directory is removed but the record stays.
handleUninstallRmKeepsRecord ==
    LET r == Rq("/uninstall")
    IN  /\ r.pc = "rm"
        /\ managed' = [managed EXCEPT !.dirs = Without(@, r.id)]
        /\ SetReq("/uninstall", [r EXCEPT !.pc = "write", !.next = r.cfg])
        /\ UNCHANGED <<disk, remote, written, answered, inst, tmpDirs, calls, ledgerVars, authVars>>

\* await fs.rm(path.join(managedSkillsDir, id), { recursive: true, force: true })
\* and removeSkillInstall(cfg, id); an error of rm leaves the handler as a
\* rejected promise, after rm removed some of the files (or none).
handleUninstallRm ==
    LET r == Rq("/uninstall")
    IN  /\ r.pc = "rm"
        /\ \/ /\ managed' = [managed EXCEPT !.dirs = Without(@, r.id)]
              /\ SetReq("/uninstall", [r EXCEPT !.pc = "write",
                                                !.next = removeSkillInstall(r.cfg, r.id)])
           \/ /\ \E kept \in SUBSET DOMAIN FilesAt(managed.dirs, r.id) :
                   managed' = IF r.id \in DOMAIN managed.dirs
                              THEN [managed EXCEPT !.dirs[r.id] = Restrict(@, kept)]
                              ELSE managed
              /\ SetReq("/uninstall", [r EXCEPT !.pc = "rejected"])
        /\ UNCHANGED <<disk, remote, written, answered, inst, tmpDirs, calls, ledgerVars, authVars>>

\* uninstallPlugin({config: cfg, pluginId: id}): 404 when it fails.
handleUninstallPlugin ==
    LET r == Rq("/uninstall")
    IN  /\ r.pc = "plugin"
        /\ IF r.id \notin DOMAIN PluginInstallsOf(r.cfg)
           THEN Answer("/uninstall", r, 404, <<"Plugin not found">>)
           ELSE /\ SetReq("/uninstall", [r EXCEPT !.pc = "write",
                                                  !.next = uninstallPlugin(r.cfg, r.id)])
                /\ UNCHANGED answered
        /\ UNCHANGED <<disk, remote, written, installVars, ledgerVars, authVars>>

\* handleSync, after authorization: the method check and loadConfig, up to the
\* await of resolveRegistryAuth.
handleSync ==
    LET r == Rq("/sync")
    IN  /\ r.pc = "authorized"
        /\ IF r.method # "POST"
           THEN Answer("/sync", r, 405, <<"Method Not Allowed">>)
           ELSE /\ SetReq("/sync", [r EXCEPT !.cfg = disk, !.pc = "plugins"])
                /\ UNCHANGED answered
        /\ UNCHANGED <<disk, remote, written, installVars, ledgerVars, authVars>>

\* The plugin sync: the outcomes, config and changed of the plugin updater are
\* taken over, then the marketplace skills are selected.
handleSyncPlugins ==
    LET r == Rq("/sync")
    IN  /\ r.pc = "plugins"
        /\ \E pluginResult \in updateNpmInstalledPlugins(r.cfg),
              order \in Enumerations(marketplaceSkills(r.cfg)) :
             SetReq("/sync",
                 [r EXCEPT !.results = pluginResult.outcomes,
                           !.next = pluginResult.config,
                           !.changed = pluginResult.changed,
                           !.pluginChanged = pluginResult.changed,
                           !.queue = IF HasCatalogUrl(r.cfg) THEN order ELSE <<>>,
                           !.pc = IF Len(order) > 0 /\ HasCatalogUrl(r.cfg)
                                  THEN "catalog" ELSE "finish"])
        /\ UNCHANGED <<disk, remote, written, answered, installVars, ledgerVars, authVars>>

\* fetchCatalogWithAuth and resolveMarketplaceAuthToken settle; a throw is
\* caught and reported as one outcome for "*".
handleSyncCatalog ==
    LET r == Rq("/sync")
    IN  /\ r.pc = "catalog"
        /\ \/ SetReq("/sync",
                  [r EXCEPT !.results = Append(@, Outcome(<<"*">>, "skill", "error", "", "", "",
                                 <<"Failed to fetch catalog:", "fetch failed">>)),
                            !.queue = <<>>,
                            !.pc = "finish"])
           \/ \E catalogGarToken \in AuthTokens, garToken \in AuthTokens :
                SetReq("/sync",
                  [r EXCEPT !.catalog = remote,
                            !.catalogToken = fetchCatalogAuthToken(r.cfg, catalogGarToken),
                            !.authToken = resolveMarketplaceAuthToken(r.cfg, garToken),
                            !.pc = "loop"])
        /\ UNCHANGED <<disk, remote, written, answered, installVars, ledgerVars, authVars>>

\* Mutation: a skill found in the catalog is re-installed whatever its version.
handleSyncSkillAnyVersion ==
    LET r == Rq("/sync")
        skillName == Head(r.queue)
        record == InstallsOf(r.cfg)[skillName]
        catalogEntry == find(r.catalog.skills, skillName)
        Continue(outcome) == SetReq("/sync", [r EXCEPT !.results = Append(@, outcome),
                                                       !.queue = Tail(@)])
    IN  /\ r.pc = "loop"
        /\ IF r.queue = <<>>
           THEN SetReq("/sync", [r EXCEPT !.pc = "finish"])
           ELSE IF Matching(r.catalog.skills, skillName) = {}
           THEN Continue(Outcome(skillName, "skill", "skipped", "", "", record["version"],
                                 <<"No longer in catalog">>))
           ELSE IF catalogEntry.archiveUrl = NoArchiveUrl
           THEN Continue(Outcome(skillName, "skill", "skipped", "", "", record["version"],
                                 <<"No archive URL">>))
           ELSE SetReq("/sync", [r EXCEPT !.entry = catalogEntry, !.pc = "install",
                                          !.invoked = Append(@, skillName)])
        /\ UNCHANGED <<disk, remote, written, answered, installVars, ledgerVars, authVars>>

\* One round of the loop over the marketplace skills, up to `continue` or to
\* the await of installSkillFromArchiveUrl.
handleSyncSkill ==
    LET r == Rq("/sync")
        skillName == Head(r.queue)
        record == InstallsOf(r.cfg)[skillName]
        catalogEntry == find(r.catalog.skills, skillName)
        Continue(outcome) == SetReq("/sync", [r EXCEPT !.results = Append(@, outcome),
                                                       !.queue = Tail(@)])
    IN  /\ r.pc = "loop"
        /\ IF r.queue = <<>>
           THEN SetReq("/sync", [r EXCEPT !.pc = "finish"])
           ELSE IF Matching(r.catalog.skills, skillName) = {}
           THEN Continue(Outcome(skillName, "skill", "skipped", "", "", record["version"],
                                 <<"No longer in catalog">>))
           ELSE IF record["version"] = catalogEntry.version
           THEN Continue(Outcome(skillName, "skill", "unchanged", "", "", record["version"],
                                 NoMessage))
           ELSE IF catalogEntry.archiveUrl = NoArchiveUrl
           THEN Continue(Outcome(skillName, "skill", "skipped", "", "", record["version"],
                                 <<"No archive URL">>))
           ELSE SetReq("/sync", [r EXCEPT !.entry = catalogEntry, !.pc = "install",
                                          !.invoked = Append(@, skillName)])
        /\ UNCHANGED <<disk, remote, written, answered, installVars, ledgerVars, authVars>>

\* The call of installSkillFromArchiveUrl({name: skillName, archiveUrl, authToken}).
handleSyncInstallCall ==
    LET r == Rq("/sync")
    IN  /\ r.pc = "install"
        /\ InstallCall("sync", Head(r.queue), r.entry.archiveUrl, r.authToken)

\* The installer settled: an 'error' outcome, or the record is rewritten in
\* next and the outcome is 'updated'; an exception lands in the catch block
\* around the catalog fetch and ends the loop.
handleSyncInstalled ==
    LET r == Rq("/sync")
        skillName == Head(r.queue)
        record == InstallsOf(r.cfg)[skillName]
        installResult == inst["sync"].result
    IN  /\ r.pc = "install"
        /\ inst["sync"].pc \in {"returned", "rejected"}
        /\ inst' = [inst EXCEPT !["sync"] = NoCall]
        /\ IF inst["sync"].pc = "rejected"
           THEN SetReq("/sync",
                  [r EXCEPT !.settled = Append(@, [name |-> skillName, threw |-> TRUE,
                                                    result |-> NoResult,
                                                    failedAt |-> inst["sync"].failedAt]),
                            !.results = Append(@, Outcome(<<"*">>, "skill", "error", "", "", "",
                                 <<"Failed to fetch catalog:", "mkdtemp failed">>)),
                            !.pc = "finish"])
           ELSE IF ~installResult.ok
           THEN SetReq("/sync",
                  [r EXCEPT !.settled = Append(@, [name |-> skillName, threw |-> FALSE,
                                                    result |-> installResult,
                                                    failedAt |-> inst["sync"].failedAt]),
                            !.results = Append(@, Outcome(skillName, "skill", "error",
                                 record["version"], "", "", installResult.error)),
                            !.queue = Tail(@),
                            !.pc = "loop"])
           ELSE SetReq("/sync",
                  [r EXCEPT !.settled = Append(@, [name |-> skillName, threw |-> FALSE,
                                                    result |-> installResult,
                                                    failedAt |-> inst["sync"].failedAt]),
                            !.next = recordSkillInstall(r.next,
                                 [skillName |-> skillName, source |-> "marketplace",
                                  version |-> r.entry.version,
                                  archiveUrl |-> r.entry.archiveUrl], now),
                            !.changed = TRUE,
                            !.results = Append(@, Outcome(skillName, "skill", "updated",
                                 record["version"], r.entry.version, "", NoMessage)),
                            !.queue = Tail(@),
                            !.pc = "loop"])
        /\ UNCHANGED <<disk, remote, written, answered, managed, tmpDirs, calls, ledgerVars, authVars>>

\* Mutation: the configuration is written whether or not anything changed.
handleSyncFinishAlwaysWrites ==
    LET r == Rq("/sync")
    IN  /\ r.pc = "finish"
        /\ SetReq("/sync", [r EXCEPT !.pc = "write"])
        /\ UNCHANGED <<disk, remote, written, answered, installVars, ledgerVars, authVars>>

\* if (changed) await writeConfigFile(next); otherwise the answer goes out.
handleSyncFinish ==
    LET r == Rq("/sync")
    IN  /\ r.pc = "finish"
        /\ IF r.changed
           THEN /\ SetReq("/sync", [r EXCEPT !.pc = "write"])
                /\ UNCHANGED answered
           ELSE Answer("/sync", r, 200, NoMessage)
        /\ UNCHANGED <<disk, remote, written, installVars, ledgerVars, authVars>>

\* The steps of an installer call in flight.
InstallSteps(p) ==
    \/ Mkdtemp(p)
    \/ Fetch(p)
    \/ CheckStatus(p)
    \/ ReadBody(p)
    \/ WriteArchive(p)
    \/ Release(p)
    \/ EnsureExtractDir(p)
    \/ Extract(p)
    \/ StatMarker(p)
    \/ RmTarget(p)
    \/ EnsureManaged(p)
    \/ CpFile(p)
    \/ CpFail(p)
    \/ CpDone(p)
    \/ Cleanup(p)

\* The steps of the requests in flight.
HandlerSteps ==
    \/ \E path \in Paths : Authorize(path)
    \/ Unhandled
    \/ handleInstalled
    \/ \E path \in {"/install", "/uninstall"} : handleBody(path)
    \/ handleInstall
    \/ handleInstallCatalog
    \/ doInstallSkillCall
    \/ doInstallSkill
    \/ doInstallPlugin
    \/ handleUninstall
    \/ handleUninstallRm
    \/ handleUninstallPlugin
    \/ handleSync
    \/ handleSyncPlugins
    \/ handleSyncCatalog
    \/ handleSyncSkill
    \/ handleSyncInstallCall
    \/ handleSyncInstalled
    \/ handleSyncFinish
    \/ \E path \in {"/install", "/uninstall", "/sync"} : writeConfigFile(path)
    \/ \E p \in Procs : InstallSteps(p)

\* The managed directory that goes with a configuration: one directory per
\* recorded skill.
ManagedFor(c) ==
    [exists |-> DOMAIN InstallsOf(c) # {},
     dirs |-> [k \in DOMAIN InstallsOf(c) |-> ArchiveA]]

InitHttp ==
    /\ inst = [p \in Procs |-> NoCall]
    /\ tmpDirs = {}
    /\ calls = 0
    /\ cfg = EmptyObject
    /\ now = 1
    /\ trail = <<>>
    /\ req = [path \in Paths |-> NoRequest]
    /\ disk \in StoredConfigs
    /\ managed = ManagedFor(disk)
    /\ remote \in Catalogs
    /\ written = <<>>
    /\ answered = <<>>
    /\ rpc = NoRpc

\* One request, from its arrival to its answer.
OneRequest ==
    /\ \A path \in Paths : Rq(path).pc = "idle"
    /\ \E path \in Paths, method \in Methods :
         \E body \in BodiesFor(path) : HttpRequest(path, method, body)

NextHttp ==
    \/ OneRequest
    \/ HandlerSteps

SpecHttp == InitHttp /\ [][NextHttp]_vars

\* ---- uninstall and listing requests, one after the other
MaxRequests == 2    \* requests answered in a row

\* The uninstall requests made: for both recorded skills, an unknown skill and
\* the plugin.
UninstallBodies ==
    { b \in RequestBodies :
        /\ b.ok
        /\ \/ b.type = "skill" /\ b.id \in {<<"a">>, <<"a", "a">>, <<"z">>}
           \/ b.type = "plugin" /\ b.id = <<"p">> }

\* The request to path is over; the next one can be made.
NextRequest(path) ==
    /\ Rq(path).pc \in {"answered", "rejected"}
    /\ SetReq(path, NoRequest)
    /\ UNCHANGED <<disk, remote, written, answered, installVars, ledgerVars, authVars>>

OneUninstallRequest ==
    /\ \A path \in Paths : Rq(path).pc = "idle"
    /\ Len(answered) < MaxRequests
    /\ \/ \E method \in Methods, body \in UninstallBodies :
            HttpRequest("/uninstall", method, body)
       \/ \E method \in Methods : HttpRequest("/installed", method, NoBody)

InitUninstall ==
    /\ inst = [p \in Procs |-> NoCall]
    /\ tmpDirs = {}
    /\ calls = 0
    /\ cfg = EmptyObject
    /\ now = 1
    /\ trail = <<>>
    /\ req = [path \in Paths |-> NoRequest]
    /\ disk \in StoredConfigs
    /\ managed = ManagedFor(disk)
    /\ remote = NoCatalog
    /\ written = <<>>
    /\ answered = <<>>
    /\ rpc = NoRpc

NextUninstall ==
    \/ OneUninstallRequest
    \/ \E path \in {"/uninstall", "/installed"} : Authorize(path)
    \/ handleInstalled
    \/ handleBody("/uninstall")
    \/ handleUninstall
    \/ handleUninstallRm
    \/ handleUninstallPlugin
    \/ writeConfigFile("/uninstall")
    \/ \E path \in {"/uninstall", "/installed"} : NextRequest(path)

SpecUninstall == InitUninstall /\ [][NextUninstall]_vars

\* ---- installs of plugins that compete for the memory slot
\* Configurations in which some of the memory plugins m, n and o are
\* installed, each enabled or disabled.
SlotConfigs ==
    { [gateway |-> "gateway settings",
       plugins |-> [registry |-> [catalogUrl |-> CatalogUrl, authMethod |-> "token",
                                  authToken |-> "token"],
                    installs |-> [id \in DOMAIN entries |-> PluginRecord],
                    entries |-> entries]] :
        entries \in UNION { [ids -> { [enabled |-> TRUE], [enabled |-> FALSE] }] :
                              ids \in SUBSET { <<"m">>, <<"n">>, <<"o">> } } }

\* The catalog offers two memory plugins and a tool plugin.
SlotCatalog ==
    [skills |-> << >>,
     plugins |-> << PluginP, PluginEntry(<<"m">>, <<"@", "m">>, "2.0.0"),
                    PluginEntry(<<"n">>, <<"@", "n">>, "2.0.0") >>]

InitSlots ==
    /\ inst = [p \in Procs |-> NoCall]
    /\ tmpDirs = {}
    /\ calls = 0
    /\ cfg = EmptyObject
    /\ now = 1
    /\ trail = <<>>
    /\ req = [path \in Paths |-> NoRequest]
    /\ disk \in SlotConfigs
    /\ managed = ManagedFor(disk)
    /\ remote = SlotCatalog
    /\ written = <<>>
    /\ answered = <<>>
    /\ rpc = NoRpc

NextSlots ==
    \/ \E id \in { <<"p">>, <<"m">>, <<"n">> } :
          HttpRequest("/install", "POST", [ok |-> TRUE, id |-> id, type |-> "plugin"])
    \/ Authorize("/install")
    \/ handleBody("/install")
    \/ handleInstall
    \/ handleInstallCatalog
    \/ doInstallPlugin
    \/ writeConfigFile("/install")

SpecSlots == InitSlots /\ [][NextSlots]_vars

\* ---- two requests in flight at the same time
\* The configuration the overlapping requests start from: a catalog is
\* configured and both skills are recorded as marketplace installs.
OverlapConfig ==
    [gateway |-> "gateway settings",
     plugins |-> [f \in {"registry"} |->
                    [catalogUrl |-> CatalogUrl, authMethod |-> "token", authToken |-> "token"]],
     skills |-> [f \in {"installs"} |-> [k \in {<<"a">>, <<"a", "a">>} |-> MarketplaceRecord]]]

\* The catalog served meanwhile: a newer version of one of the two skills.
OverlapCatalog ==
    [skills |-> << SkillEntry(<<"a", "a">>, "2.0.0", ArchiveUrl) >>, plugins |-> << >>]

InitOverlap ==
    /\ inst = [p \in Procs |-> NoCall]
    /\ tmpDirs = {}
    /\ calls = 0
    /\ cfg = EmptyObject
    /\ now = 1
    /\ trail = <<>>
    /\ req = [path \in Paths |-> NoRequest]
    /\ disk = OverlapConfig
    /\ managed = ManagedFor(disk)
    /\ remote = OverlapCatalog
    /\ written = <<>>
    /\ answered = <<>>
    /\ rpc = NoRpc

\* A request arrives while at most one other request is in flight: a
\* re-install of the newer skill, an uninstall of the other one, or a sync.
OverlappingRequest ==
    \E path \in {"/install", "/uninstall", "/sync"} :
        /\ \E other \in Paths \ {path} : \A q \in Paths \ {path, other} : Rq(q).pc = "idle"
        /\ HttpRequest(path, "POST",
              IF path = "/install" THEN [ok |-> TRUE, id |-> <<"a", "a">>, type |-> "skill"]
              ELSE IF path = "/uninstall" THEN [ok |-> TRUE, id |-> <<"a">>, type |-> "skill"]
              ELSE NoBody)

NextOverlap ==
    \/ OverlappingRequest
    \/ \E path \in {"/install", "/uninstall", "/sync"} : Authorize(path)
    \/ \E path \in {"/install", "/uninstall"} : handleBody(path)
    \/ handleInstall
    \/ handleInstallCatalog
    \/ doInstallSkillCall
    \/ doInstallSkill
    \/ handleUninstall
    \/ handleUninstallRm
    \/ handleSync
    \/ handleSyncPlugins
    \/ handleSyncCatalog
    \/ handleSyncSkill
    \/ handleSyncInstallCall
    \/ handleSyncInstalled
    \/ handleSyncFinish
    \/ \E path \in {"/install", "/uninstall", "/sync"} : writeConfigFile(path)
    \/ \E p \in Procs : InstallSteps(p)

SpecOverlap == InitOverlap /\ [][NextOverlap]_vars

\* ------------------------------ credentials, registry auth and the catalog
\* fetchMetadataToken: the token of the metadata server's answer, null when
\* the fetch throws (network error, timeout), the status is not a success,
\* the body is not JSON, or access_token is empty.
fetchMetadataToken(outcome) ==
    IF outcome.threw \/ ~outcome.ok \/ ~outcome.parsed THEN null
    ELSE IF outcome.access_token # "" THEN outcome.access_token
    ELSE null

\* Mutation: the exit code of the command is not looked at.
fetchGcloudCliTokenAnyCode(outcome) ==
    LET token == SelectSeq(outcome.stdout, LAMBDA piece : piece \notin {" ", "\n"})
    IN  IF outcome.threw THEN null
        ELSE IF token # <<>> THEN token[1]
        ELSE null

\* fetchGcloudCliToken: stdout without its surrounding white space, null when
\* the command cannot be run, exits with another code than 0 or prints nothing.
fetchGcloudCliToken(outcome) ==
    LET token == SelectSeq(outcome.stdout, LAMBDA piece : piece \notin {" ", "\n"})
    IN  IF outcome.threw \/ outcome.code # 0 THEN null
        ELSE IF token # <<>> THEN token[1]
        ELSE null

\* buildGarRegistryEnv({registryUrl, token}).  A URL is the sequence of its
\* pieces: the scheme with its two slashes, the host (with its port), then
\* "/" and "?" separators and the names between them.  new URL() parses a
\* scheme followed by a host; url.pathname is "/" for an empty path and ends
\* before the query.  Otherwise the fallback strips the protocol and appends
\* a slash if there is none.  The key is the registry path between
\* "npm_config_" and ":_authToken" with every "/" and ":" replaced by "_";
\* the second entry is the base64 encoding of "_:" + token.
buildGarRegistryEnv(registryUrl, token) ==
    LET schemes == {"https://", "http://"}
        parses == /\ Len(registryUrl) >= 2
                  /\ registryUrl[1] \in schemes
                  /\ registryUrl[2] \notin {"/", "?"}
        rest == SubSeq(registryUrl, 3, Len(registryUrl))
        queryAt == { i \in 1..Len(rest) : rest[i] = "?" }
        beforeQuery == IF queryAt = {} THEN rest
                       ELSE SubSeq(rest, 1, (CHOOSE i \in queryAt : \A j \in queryAt : i <= j) - 1)
        pathname == IF beforeQuery = <<>> THEN <<"/">> ELSE beforeQuery
        \* .replace(/\/$/, "/"): a trailing slash is replaced by a slash
        replaceTrailingSlash(t) == IF t # <<>> /\ t[Len(t)] = "/"
                                   THEN SubSeq(t, 1, Len(t) - 1) \o <<"/">>
                                   ELSE t
        \* .replace(/^https?:/, "")
        stripped == IF registryUrl # <<>> /\ registryUrl[1] \in schemes
                    THEN <<"/", "/">> \o Tail(registryUrl)
                    ELSE registryUrl
        registryPath == IF parses
                        THEN replaceTrailingSlash(<<"/", "/", registryUrl[2]>> \o pathname)
                        ELSE IF stripped # <<>> /\ stripped[Len(stripped)] = "/"
                        THEN stripped
                        ELSE stripped \o <<"/">>
        raw == <<"npm_config_">> \o registryPath \o <<":", "_authToken">>
        envKey == [i \in 1..Len(raw) |-> IF raw[i] \in {"/", ":"} THEN "_" ELSE raw[i]]
    IN  [k \in { envKey, <<"NPM_CONFIG__AUTH">> } |->
            IF k = <<"NPM_CONFIG__AUTH">> THEN <<"base64", "_:", token>> ELSE <<token>>]

\* Mutation: the prefix is added without removing the gs:// scheme.
resolveGcsUrlKeepsScheme(url) ==
    IF startsWith(url, "gs://")
    THEN <<"https://storage.googleapis.com/">> \o url
    ELSE url

\* resolveGcsUrl of marketplace.ts, the copy the catalog fetch uses.
resolveGcsUrlOfCatalog(url) ==
    IF startsWith(url, "gs://")
    THEN <<"https://storage.googleapis.com/">> \o SubSeq(url, 2, Len(url))
    ELSE url

\* Mutation: the collections are checked before the version.
validateCatalogCollectionsFirst(body) ==
    IF body.json # "object" THEN <<"Invalid catalog: expected an object">>
    ELSE IF body.plugins # "array" THEN <<"Invalid catalog: missing", "plugins", "array">>
    ELSE IF body.skills # "array" THEN <<"Invalid catalog: missing", "skills", "array">>
    ELSE IF body.version # "number" THEN <<"Invalid catalog: missing", "version", "field">>
    ELSE NoMessage

\* validateCatalog(body): NoMessage when it passes, else the error it throws.
\* A body is described by the JSON types of the value and of its fields.
validateCatalog(body) ==
    IF body.json # "object" THEN <<"Invalid catalog: expected an object">>
    ELSE IF body.version # "number" THEN <<"Invalid catalog: missing", "version", "field">>
    ELSE IF body.plugins # "array" THEN <<"Invalid catalog: missing", "plugins", "array">>
    ELSE IF body.skills # "array" THEN <<"Invalid catalog: missing", "skills", "array">>
    ELSE NoMessage

\* o[k] is truthy: present and not the empty string (URLs are sequences).
Truthy(o, k) ==
    /\ k \in DOMAIN o
    /\ IF k \in {"npmRegistry", "catalogUrl"} THEN o[k] # <<>> ELSE o[k] # ""

Get(o, k) == IF k \in DOMAIN o THEN o[k] ELSE ""

Calling(fn) == [NoRpc EXCEPT !.fn = fn]

RpcUnchanged == UNCHANGED <<installVars, ledgerVars, httpVars>>

\* resolveGarAuthToken() is called.
resolveGarAuthTokenCall ==
    /\ rpc.pc = "idle"
    /\ rpc' = [Calling("resolveGarAuthToken") EXCEPT !.pc = "metadata"]
    /\ RpcUnchanged

\* Mutation: the CLI is run whatever the metadata server answered.
FetchMetadataTokenThenCli ==
    /\ rpc.pc = "metadata"
    /\ \E outcome \in
          { [threw |-> TRUE, ok |-> FALSE, parsed |-> FALSE, access_token |-> ""],
            [threw |-> FALSE, ok |-> TRUE, parsed |-> TRUE, access_token |-> "metadata-token"] } :
          rpc' = [rpc EXCEPT !.metadata = outcome,
                             !.invoked = Append(@, "metadata"),
                             !.token = fetchMetadataToken(outcome),
                             !.pc = "cli"]
    /\ RpcUnchanged

\* Strategy 1: await fetchMetadataToken().
FetchMetadataToken ==
    /\ rpc.pc = "metadata"
    /\ \E outcome \in
          { [threw |-> TRUE, ok |-> FALSE, parsed |-> FALSE, access_token |-> ""],
            [threw |-> FALSE, ok |-> FALSE, parsed |-> TRUE, access_token |-> "metadata-token"],
            [threw |-> FALSE, ok |-> TRUE, parsed |-> FALSE, access_token |-> ""],
            [threw |-> FALSE, ok |-> TRUE, parsed |-> TRUE, access_token |-> ""],
            [threw |-> FALSE, ok |-> TRUE, parsed |-> TRUE, access_token |-> "metadata-token"] } :
          LET metadataToken == fetchMetadataToken(outcome)
          IN  rpc' = [rpc EXCEPT !.metadata = outcome,
                                 !.invoked = Append(@, "metadata"),
                                 !.token = metadataToken,
                                 !.pc = IF metadataToken # null THEN "resolved" ELSE "cli"]
    /\ RpcUnchanged

\* Strategy 2: await fetchGcloudCliToken().
FetchGcloudCliToken ==
    /\ rpc.pc = "cli"
    /\ \E outcome \in
          { [threw |-> TRUE, code |-> 0, stdout |-> <<>>],
            [threw |-> FALSE, code |-> 1, stdout |-> <<"cli-token", "\n">>],
            [threw |-> FALSE, code |-> 0, stdout |-> <<>>],
            [threw |-> FALSE, code |-> 0, stdout |-> <<" ", "\n">>],
            [threw |-> FALSE, code |-> 0, stdout |-> <<"cli-token", "\n">>] } :
          rpc' = [rpc EXCEPT !.cli = outcome,
                             !.invoked = Append(@, "cli"),
                             !.token = fetchGcloudCliToken(outcome),
                             !.pc = "resolved"]
    /\ RpcUnchanged

\* resolveGarAuthToken returns to a caller outside the model.
resolveGarAuthToken ==
    /\ rpc.pc = "resolved"
    /\ rpc.fn = "resolveGarAuthToken"
    /\ rpc' = [rpc EXCEPT !.pc = "returned", !.kind = IF rpc.token = null THEN "null" ELSE "token"]
    /\ RpcUnchanged

\* Mutation: a configured token is used whatever the auth method.
resolveRegistryAuthCallAnyMethod(registry) ==
    LET r == [Calling("resolveRegistryAuth") EXCEPT !.registry = registry]
        registryUrl == IF Truthy(registry, "npmRegistry") THEN registry["npmRegistry"] ELSE <<>>
        with(registryEnv) == [r EXCEPT !.pc = "returned", !.kind = "auth",
                                       !.auth = [registryUrl |-> registryUrl,
                                                 registryEnv |-> registryEnv]]
    IN  /\ rpc.pc = "idle"
        /\ rpc' = IF ~Truthy(registry, "npmRegistry")
                  THEN [r EXCEPT !.pc = "returned", !.kind = "null"]
                  ELSE IF Get(registry, "authMethod") = "gcloud-adc"
                  THEN [r EXCEPT !.pc = "metadata"]
                  ELSE IF Truthy(registry, "authToken")
                  THEN with(buildGarRegistryEnv(registryUrl, registry["authToken"]))
                  ELSE with(EmptyObject)
        /\ RpcUnchanged

\* resolveRegistryAuth(registry) up to its return or its await of the resolver.
resolveRegistryAuthCall(registry) ==
    LET r == [Calling("resolveRegistryAuth") EXCEPT !.registry = registry]
        registryUrl == IF Truthy(registry, "npmRegistry") THEN registry["npmRegistry"] ELSE <<>>
        with(registryEnv) == [r EXCEPT !.pc = "returned", !.kind = "auth",
                                       !.auth = [registryUrl |-> registryUrl,
                                                 registryEnv |-> registryEnv]]
    IN  /\ rpc.pc = "idle"
        /\ rpc' = IF ~Truthy(registry, "npmRegistry")
                  THEN [r EXCEPT !.pc = "returned", !.kind = "null"]
                  ELSE IF Get(registry, "authMethod") = "gcloud-adc"
                  THEN [r EXCEPT !.pc = "metadata"]
                  ELSE IF Get(registry, "authMethod") = "token" /\ Truthy(registry, "authToken")
                  THEN with(buildGarRegistryEnv(registryUrl, registry["authToken"]))
                  ELSE with(EmptyObject)
        /\ RpcUnchanged

\* case "gcloud-adc" after the resolver returned.
resolveRegistryAuth ==
    LET registryUrl == rpc.registry["npmRegistry"]
    IN  /\ rpc.pc = "resolved"
        /\ rpc.fn = "resolveRegistryAuth"
        /\ rpc' = [rpc EXCEPT !.pc = "returned", !.kind = "auth",
                              !.auth = [registryUrl |-> registryUrl,
                                        registryEnv |->
                                           IF rpc.token # null
                                           THEN buildGarRegistryEnv(registryUrl, rpc.token)
                                           ELSE EmptyObject]]
        /\ RpcUnchanged

\* Mutation: the resolver is asked even when a static token is supplied.
fetchCatalogWithAuthCallAlwaysResolves(params) ==
    LET r == [Calling("fetchCatalogWithAuth") EXCEPT !.params = params]
    IN  /\ rpc.pc = "idle"
        /\ rpc' = IF Get(params, "authMethod") = "gcloud-adc"
                  THEN [r EXCEPT !.pc = "metadata"]
                  ELSE [r EXCEPT !.pc = "fetch",
                                 !.token = IF Truthy(params, "authToken")
                                           THEN params["authToken"] ELSE null]
        /\ RpcUnchanged

\* fetchCatalogWithAuth(params) up to its call of fetchCatalog or its await
\* of the resolver.
fetchCatalogWithAuthCall(params) ==
    LET r == [Calling("fetchCatalogWithAuth") EXCEPT !.params = params]
    IN  /\ rpc.pc = "idle"
        /\ rpc' = IF ~Truthy(params, "authToken") /\ Get(params, "authMethod") = "gcloud-adc"
                  THEN [r EXCEPT !.pc = "metadata"]
                  ELSE [r EXCEPT !.pc = "fetch",
                                 !.token = IF Truthy(params, "authToken")
                                           THEN params["authToken"] ELSE null]
        /\ RpcUnchanged

\* token = (await resolveGarAuthToken()) ?? undefined, then fetchCatalog.
fetchCatalogWithAuth ==
    /\ rpc.pc = "resolved"
    /\ rpc.fn = "fetchCatalogWithAuth"
    /\ rpc' = [rpc EXCEPT !.pc = "fetch"]
    /\ RpcUnchanged

\* fetchCatalog({catalogUrl, authToken}) called directly.
fetchCatalogCall(params) ==
    /\ rpc.pc = "idle"
    /\ rpc' = [Calling("fetchCatalog") EXCEPT !.params = params, !.pc = "fetch",
                  !.token = IF Truthy(params, "authToken") THEN params["authToken"] ELSE null]
    /\ RpcUnchanged

\* fetchCatalog: the request, the status check, the body and its validation.
fetchCatalog ==
    LET url == resolveGcsUrlOfCatalog(rpc.params["catalogUrl"])
        headers == IF rpc.token # null /\ rpc.token # ""
                   THEN [h \in {"Authorization"} |-> <<"Bearer", rpc.token>>]
                   ELSE EmptyObject
        sent == [rpc EXCEPT !.request = [url |-> url, headers |-> headers],
                            !.invoked = Append(@, "fetch")]
    IN  /\ rpc.pc = "fetch"
        /\ \/ \E e \in FetchErrors : rpc' = [sent EXCEPT !.pc = "threw", !.error = <<e>>]
           \/ \E res \in Responses,
                 body \in [parsed : BOOLEAN, json : {"null", "string", "object"},
                           version : {"absent", "string", "number"},
                           plugins : {"absent", "object", "array"},
                           skills : {"absent", "object", "array"}] :
                /\ (body.json # "object" \/ ~body.parsed) =>
                      (body.version = "absent" /\ body.plugins = "absent" /\ body.skills = "absent")
                /\ ~body.parsed => body.json = "null"
                /\ rpc' = IF ~res.ok
                          THEN [sent EXCEPT !.pc = "threw", !.body = body,
                                   !.error = <<"Failed to fetch catalog from", url,
                                               res.status, res.statusText>>]
                          ELSE IF ~body.parsed
                          THEN [sent EXCEPT !.pc = "threw", !.body = body,
                                            !.error = <<"Unexpected token in JSON">>]
                          ELSE IF validateCatalog(body) # NoMessage
                          THEN [sent EXCEPT !.pc = "threw", !.body = body,
                                            !.error = validateCatalog(body)]
                          ELSE [sent EXCEPT !.pc = "returned", !.kind = "catalog",
                                            !.body = body]
        /\ RpcUnchanged

\* String.prototype.toLowerCase on a string over the letters a, b, c.
toLowerCase(s) ==
    [i \in 1..Len(s) |-> IF s[i] = "A" THEN "a" ELSE IF s[i] = "B" THEN "b" ELSE s[i]]

\* String.prototype.includes: q occurs in s as a substring.
includesString(s, q) ==
    \E start \in 1..(Len(s) - Len(q) + 1) : SubSeq(s, start, start + Len(q) - 1) = q

\* Mutation: the query is compared as typed, not in lower case.
searchCatalogAsTyped(catalog, query) ==
    LET some(e) == /\ "tags" \in DOMAIN e
                   /\ \E i \in 1..Len(e["tags"]) : includesString(toLowerCase(e["tags"][i]), query)
    IN  [plugins |-> SelectSeq(catalog.plugins,
                        LAMBDA e : \/ includesString(toLowerCase(e["id"]), query)
                                   \/ includesString(toLowerCase(e["name"]), query)
                                   \/ includesString(toLowerCase(e["description"]), query)
                                   \/ some(e)),
         skills |-> SelectSeq(catalog.skills,
                        LAMBDA e : \/ includesString(toLowerCase(e["name"]), query)
                                   \/ includesString(toLowerCase(e["description"]), query)
                                   \/ some(e))]

\* searchCatalog(catalog, query)
searchCatalog(catalog, query) ==
    LET q == toLowerCase(query)
        some(e) == /\ "tags" \in DOMAIN e
                   /\ \E i \in 1..Len(e["tags"]) : includesString(toLowerCase(e["tags"][i]), q)
    IN  [plugins |-> SelectSeq(catalog.plugins,
                        LAMBDA e : \/ includesString(toLowerCase(e["id"]), q)
                                   \/ includesString(toLowerCase(e["name"]), q)
                                   \/ includesString(toLowerCase(e["description"]), q)
                                   \/ some(e)),
         skills |-> SelectSeq(catalog.skills,
                        LAMBDA e : \/ includesString(toLowerCase(e["name"]), q)
                                   \/ includesString(toLowerCase(e["description"]), q)
                                   \/ some(e))]

\* A call of searchCatalog: it returns at once.
searchCatalogCall(catalog, query) ==
    /\ rpc.pc = "idle"
    /\ rpc' = [Calling("searchCatalog") EXCEPT
                  !.pc = "returned", !.kind = "search",
                  !.params = [catalog |-> catalog, query |-> query],
                  !.body = searchCatalog(catalog, query)]
    /\ RpcUnchanged

\* Catalogs to search: each entry has one field (or one tag) that holds a
\* word of its own, or none, or no tags at all.
SearchCatalogs ==
    LET words == { <<"a">>, <<"A", "b">>, <<"b", "a">> }
        filler == <<"c">>
        plugin == [id |-> filler, name |-> filler, description |-> filler, tags |-> <<filler>>]
        skill == [name |-> filler, description |-> filler, tags |-> <<filler>>]
        variants(base) ==
            { base, Omit(base, "tags") }
            \cup { Assign(base, f, w) : f \in DOMAIN base \ {"tags"}, w \in words }
            \cup { Assign(base, "tags", <<filler, w>>) : w \in words }
    IN  { [plugins |-> <<p1, p2>>, skills |-> <<s1>>] :
            p1 \in variants(plugin), p2 \in variants(plugin), s1 \in variants(skill) }

Queries == { <<>>, <<"a">>, <<"A">>, <<"a", "B">>, <<"b", "a">>, <<"c", "c">> }

\* The registry URLs buildGarRegistryEnv is called with: URLs with and
\* without a path, a trailing slash and a query, and strings that are no URL.
GarRegistryUrls ==
    { <<scheme, "h">> \o path : scheme \in {"https://", "http://"},
                                 path \in { <<>>, <<"/">>, <<"/", "repo">>, <<"/", "repo", "/">>,
                                            <<"/", "p", "/", "repo">>,
                                            <<"/", "p", "/", "repo", "/">>,
                                            <<"/", "repo", "?", "q">> } }
    \cup { <<>>, <<"not-a-url">>, <<"not-a-url", "/">>,
           <<"h", "/", "repo">>, <<"h", "/", "repo", "/">> }

\* buildGarRegistryEnv({registryUrl, token}) called directly.
buildGarRegistryEnvCall(registryUrl, token) ==
    /\ rpc.pc = "idle"
    /\ rpc' = [Calling("buildGarRegistryEnv") EXCEPT
                  !.params = [registryUrl |-> registryUrl, token |-> token],
                  !.pc = "returned", !.kind = "env",
                  !.auth = buildGarRegistryEnv(registryUrl, token)]
    /\ RpcUnchanged

\* The caller has the result (or the exception).
RpcDone ==
    /\ rpc.pc \in {"returned", "threw"}
    /\ rpc' = NoRpc
    /\ RpcUnchanged

\* plugins.registry as an operator may have written it, and none at all.
RegistryInputs ==
    { EmptyObject } \cup
    { [k \in keys |-> IF k = "npmRegistry" THEN url ELSE IF k = "authMethod" THEN m ELSE t] :
        keys \in { {"npmRegistry"}, {"npmRegistry", "authMethod"}, {"authMethod", "authToken"},
                   {"npmRegistry", "authMethod", "authToken"} },
        url \in { <<>>, <<"https://", "npm.example.com", "/", "repo", "/">> },
        m \in {"gcloud-adc", "token", "npmrc", "basic"},
        t \in {"", "static-token"} }

\* The parameters of fetchCatalogWithAuth and fetchCatalog.
CatalogParams ==
    { [k \in keys |-> IF k = "catalogUrl" THEN url ELSE IF k = "authMethod" THEN m ELSE t] :
        keys \in { {"catalogUrl"}, {"catalogUrl", "authMethod"}, {"catalogUrl", "authToken"},
                   {"catalogUrl", "authMethod", "authToken"} },
        url \in { <<"gs://", "bucket/catalog.json">>, <<"gs://">>,
                  <<"https://", "example.com/catalog.json">>,
                  <<"https://storage.googleapis.com/", "bucket/catalog.json">>,
                  <<"https://", "example.com/?from=", "gs://", "bucket">> },
        m \in {"gcloud-adc", "token", "npmrc"},
        t \in {"", "static-token"} }

InitCatalog ==
    /\ inst = [p \in Procs |-> NoCall]
    /\ managed = [exists |-> FALSE, dirs |-> <<>>]
    /\ tmpDirs = {}
    /\ calls = 0
    /\ cfg = EmptyObject
    /\ now = 1
    /\ trail = <<>>
    /\ NoRequests

NextCatalog ==
    \/ resolveGarAuthTokenCall
    \/ FetchMetadataToken
    \/ FetchGcloudCliToken
    \/ resolveGarAuthToken
    \/ \E registry \in RegistryInputs : resolveRegistryAuthCall(registry)
    \/ resolveRegistryAuth
    \/ \E params \in CatalogParams : fetchCatalogWithAuthCall(params)
    \/ fetchCatalogWithAuth
    \/ \E params \in CatalogParams : fetchCatalogCall(params)
    \/ fetchCatalog
    \/ \E catalog \in SearchCatalogs, query \in Queries : searchCatalogCall(catalog, query)
    \/ \E registryUrl \in GarRegistryUrls, token \in {"tok", "static-token"} :
          buildGarRegistryEnvCall(registryUrl, token)
    \/ RpcDone

SpecCatalog == InitCatalog /\ [][NextCatalog]_vars

\* ---- install, uninstall and sync requests one after the other
\* The configurations the sequence starts from: a catalog is configured and
\* either both skills are recorded as marketplace installs or none is (and the
\* managed skills directory does not exist yet).
SequenceConfigs ==
    { OverlapConfig, [f \in {"gateway", "plugins"} |-> OverlapConfig[f]] }

\* The catalog served all along: a newer version of one recorded skill, the
\* recorded version of the other, and a skill whose name holds a backslash.
SequenceCatalog ==
    [skills |-> << SkillEntry(<<"a">>, "2.0.0", ArchiveUrl),
                   SkillEntry(<<"a", "a">>, "1.0.0", ArchiveUrl),
                   SkillEntry(<<"\\", "a">>, "1.0.0", ArchiveUrl) >>,
     plugins |-> << >>]

InitSequence ==
    /\ inst = [p \in Procs |-> NoCall]
    /\ tmpDirs = {}
    /\ calls = 0
    /\ cfg = EmptyObject
    /\ now = 1
    /\ trail = <<>>
    /\ req = [path \in Paths |-> NoRequest]
    /\ disk \in SequenceConfigs
    /\ managed = ManagedFor(disk)
    /\ remote = SequenceCatalog
    /\ written = <<>>
    /\ answered = <<>>
    /\ rpc = NoRpc

\* No request is in progress: each one made so far was answered or ended as
\* a rejected promise.
NoRequestInProgress == \A path \in Paths : Rq(path).pc \in {"idle", "answered", "rejected"}

\* An answered request leaves; the next request to the same path can be made.
RequestOver(path) ==
    /\ Rq(path).pc = "answered"
    /\ SetReq(path, NoRequest)
    /\ UNCHANGED <<disk, remote, written, answered, installVars, ledgerVars, authVars>>

\* A request arrives when no other is in progress: an install of a catalog
\* skill, an uninstall of a skill, or a sync.
SequentialRequest ==
    /\ NoRequestInProgress
    /\ Len(answered) < MaxRequests
    /\ \/ \E id \in { <<"a">>, <<"\\", "a">> } :
            HttpRequest("/install", "POST", [ok |-> TRUE, id |-> id, type |-> "skill"])
       \/ HttpRequest("/uninstall", "POST", [ok |-> TRUE, id |-> <<"a">>, type |-> "skill"])
       \/ HttpRequest("/sync", "POST", NoBody)

NextSequence ==
    \/ SequentialRequest
    \/ \E path \in {"/install", "/uninstall", "/sync"} : RequestOver(path)
    \/ \E path \in {"/install", "/uninstall", "/sync"} : Authorize(path)
    \/ \E path \in {"/install", "/uninstall"} : handleBody(path)
    \/ handleInstall
    \/ handleInstallCatalog
    \/ doInstallSkillCall
    \/ doInstallSkill
    \/ handleUninstall
    \/ handleUninstallRm
    \/ handleSync
    \/ handleSyncPlugins
    \/ handleSyncCatalog
    \/ handleSyncSkill
    \/ handleSyncInstallCall
    \/ handleSyncInstalled
    \/ handleSyncFinish
    \/ \E path \in {"/install", "/uninstall", "/sync"} : writeConfigFile(path)
    \/ \E p \in Procs : InstallSteps(p)

SpecSequence == InitSequence /\ [][NextSequence]_vars

\* ---- one install or sync request under every registry configuration
\* plugins.registry with every combination of authMethod (or none) and
\* authToken (or none).
TokenRegistries ==
    { [k \in keys |-> IF k = "catalogUrl" THEN CatalogUrl
                      ELSE IF k = "authMethod" THEN m ELSE "token"] :
        keys \in { {"catalogUrl"}, {"catalogUrl", "authMethod"}, {"catalogUrl", "authToken"},
                   {"catalogUrl", "authMethod", "authToken"} },
        m \in {"gcloud-adc", "token", "npmrc"} }

InitTokens ==
    /\ inst = [p \in Procs |-> NoCall]
    /\ tmpDirs = {}
    /\ calls = 0
    /\ cfg = EmptyObject
    /\ now = 1
    /\ trail = <<>>
    /\ req = [path \in Paths |-> NoRequest]
    /\ disk \in { Assign(OverlapConfig, "plugins", [f \in {"registry"} |-> registry]) :
                    registry \in TokenRegistries }
    /\ managed = ManagedFor(disk)
    /\ remote = SequenceCatalog
    /\ written = <<>>
    /\ answered = <<>>
    /\ rpc = NoRpc

\* One request that downloads a skill archive: an install of a, or a sync.
TokenRequest ==
    /\ \A path \in Paths : Rq(path).pc = "idle"
    /\ \/ HttpRequest("/install", "POST", [ok |-> TRUE, id |-> <<"a">>, type |-> "skill"])
       \/ HttpRequest("/sync", "POST", NoBody)

NextTokens ==
    \/ TokenRequest
    \/ \E path \in {"/install", "/sync"} : Authorize(path)
    \/ handleBody("/install")
    \/ handleInstall
    \/ handleInstallCatalog
    \/ doInstallSkillCall
    \/ doInstallSkill
    \/ handleSync
    \/ handleSyncPlugins
    \/ handleSyncCatalog
    \/ handleSyncSkill
    \/ handleSyncInstallCall
    \/ handleSyncInstalled
    \/ handleSyncFinish
    \/ \E path \in {"/install", "/sync"} : writeConfigFile(path)
    \/ \E p \in Procs : InstallSteps(p)

SpecTokens == InitTokens /\ [][NextTokens]_vars

\* ---- the command line: marketplace install <id>
\* The ids given on the command line.
CliIds == { <<"a">>, <<"a", "a">>, <<"p">>, <<"@", "p">>, <<"z">> }

\* The install action up to its await in loadCatalog(): without a catalog URL
\* in the configuration the command ends with exit code 1.
marketplaceInstall(id) ==
    LET c == [Calling("marketplace install") EXCEPT !.id = id]
    IN  /\ rpc.pc = "idle"
        /\ rpc' = IF ~HasCatalogUrl(disk)
                  THEN [c EXCEPT !.pc = "exited", !.exit = 1,
                                 !.error = <<"No marketplace catalog configured">>]
                  ELSE [c EXCEPT !.pc = "loadCatalog"]
        /\ RpcUnchanged

\* fetchCatalogWithAuth settles: the entry is looked up with
\* catalog.plugins.find((p) => p.id === id || p.npmSpec === id); without one
\* the command reports "Plugin not found" and exits with 1, otherwise the
\* configuration is loaded and the npm install awaited.
marketplaceInstallCatalog ==
    /\ rpc.fn = "marketplace install"
    /\ rpc.pc = "loadCatalog"
    /\ \/ rpc' = [rpc EXCEPT !.pc = "threw", !.error = <<"Catalog fetch failed">>]
       \/ rpc' = IF MatchingPlugin(remote.plugins, rpc.id) = {}
                 THEN [rpc EXCEPT !.catalog = remote, !.pc = "exited", !.exit = 1,
                                  !.error = <<"Plugin", "not found in the catalog.">>]
                 ELSE [rpc EXCEPT !.catalog = remote, !.cfg = disk, !.pc = "npm",
                                  !.entry = findPlugin(remote.plugins, rpc.id),
                                  !.invoked = Append(@, "installPluginFromNpmSpec")]
    /\ RpcUnchanged

\* installPluginFromNpmSpec settles: exit code 1 with its error, or the plugin
\* is enabled and recorded and the exclusive slot selection applied, up to the
\* await of writeConfigFile.
marketplaceInstallNpm ==
    LET recorded == recordPluginInstall(rpc.cfg, rpc.entry, now)
        report == buildPluginStatusReport(recorded)
        plugin == SelectSeq(report, LAMBDA q : q.id = rpc.entry.name)
        slotResult == IF plugin # <<>>
                      THEN applyExclusiveSlotSelection(recorded, plugin[1].id, plugin[1].kind, report)
                      ELSE [config |-> recorded, warnings |-> <<>>]
    IN  /\ rpc.fn = "marketplace install"
        /\ rpc.pc = "npm"
        /\ \/ rpc' = [rpc EXCEPT !.pc = "exited", !.exit = 1, !.error = <<"npm install failed">>]
           \/ rpc' = [rpc EXCEPT !.pc = "write", !.next = slotResult.config]
        /\ RpcUnchanged

\* await writeConfigFile(next), then the two log lines and the end of the
\* command.
marketplaceInstallWrite ==
    /\ rpc.fn = "marketplace install"
    /\ rpc.pc = "write"
    /\ disk' = Stored(rpc.next)
    /\ written' = Append(written, [by |-> "marketplace install", value |-> rpc.next])
    /\ rpc' = [rpc EXCEPT !.pc = "exited", !.exit = 0]
    /\ UNCHANGED <<req, remote, answered, installVars, ledgerVars>>

InitCli ==
    /\ inst = [p \in Procs |-> NoCall]
    /\ tmpDirs = {}
    /\ calls = 0
    /\ cfg = EmptyObject
    /\ now = 1
    /\ trail = <<>>
    /\ req = [path \in Paths |-> NoRequest]
    /\ disk \in StoredConfigs
    /\ managed = ManagedFor(disk)
    /\ remote \in Catalogs
    /\ written = <<>>
    /\ answered = <<>>
    /\ rpc = NoRpc

NextCli ==
    \/ \E id \in CliIds : marketplaceInstall(id)
    \/ marketplaceInstallCatalog
    \/ marketplaceInstallNpm
    \/ marketplaceInstallWrite

SpecCli == InitCli /\ [][NextCli]_vars

\* ====================================================== claims on the install
Returned(p) == Me(p).pc = "returned"

\* The directory at managedDir/name: <<files>> when it exists, <<>> when not.
DirAt(m, name) == IF name \in DOMAIN m.dirs THEN <<m.dirs[name]>> ELSE <<>>

\* The names the spec lists in its first group, and the other dot-prefixed ones.
FirstGroupName(name) ==
    \/ Len(name) = 0
    \/ \E i \in 1..Len(name) : name[i] \in {"/", "\\"}
    \/ name \in {<<".">>, <<".", ".">>}

DotPrefixedName(name) == Len(name) > 0 /\ name[1] = "."

\* C1: a call with a name that is empty, contains '/' or '\', is '.' or '..',
\* or starts with '.' returns a failure at once: the fetcher is not called, no
\* temp directory is created, the managed directory is untouched; the first
\* group gets 'Invalid skill name', the other dot-prefixed names get 'cannot
\* start with a dot'.
C1_BadNameRejectedBeforeAnyEffect ==
    \A p \in Procs :
        (Me(p).pc # "idle" /\ (FirstGroupName(Me(p).name) \/ DotPrefixedName(Me(p).name))) =>
            /\ Returned(p)
            /\ ~Me(p).result.ok
            /\ Me(p).fetchCalls = 0
            /\ Me(p).tmpDir = 0
            /\ Me(p).cleanupCalls = 0
            /\ managed = Me(p).before
            /\ Me(p).result.error =
                  IF FirstGroupName(Me(p).name) THEN <<"Invalid skill name">>
                  ELSE <<"Skill name cannot start with a dot">>

C1_Witness ==
    \E p \in Procs :
        /\ Returned(p)
        /\ Me(p).name = <<".", "a">>
        /\ Me(p).result.error = <<"Skill name cannot start with a dot">>

\* C2: a call that fails at the download (fetcher error, non-success status,
\* body read), at writing the archive, at extraction or at the SKILL.md check
\* leaves the managed directory exactly as it was; the message of a
\* non-success download carries status and reason, that of the missing marker
\* names SKILL.md.
FailedEarly(p) ==
    Returned(p) /\ Me(p).failedAt \in {"fetch", "status", "body", "write", "extract", "stat"}

C2_EarlyFailureLeavesManagedDir ==
    \A p \in Procs :
        FailedEarly(p) =>
            /\ ~Me(p).result.ok
            /\ managed = Me(p).before
            /\ Me(p).failedAt = "status" =>
                  \E r \in Responses :
                      /\ ~r.ok
                      /\ Me(p).result.error = <<"Download failed:", r.status, r.statusText>>
            /\ Me(p).failedAt = "stat" => includes(Me(p).result.error, "SKILL.md")

C2_Witness ==
    \E p \in Procs :
        /\ Returned(p)
        /\ Me(p).failedAt = "stat"
        /\ SkillMd \notin DOMAIN Me(p).extracted
        /\ Me(p).name = <<"a">>
        /\ DirAt(managed, <<"a">>) = <<ArchiveA>>

\* C3: whenever the call returns a failure, managedDir/name is what it was
\* before the call or the complete new skill, never something in between.
C3_FailureLeavesTargetWhole ==
    \A p \in Procs :
        (Returned(p) /\ ~Me(p).result.ok) =>
            \/ DirAt(managed, Me(p).name) = DirAt(Me(p).before, Me(p).name)
            \/ DirAt(managed, Me(p).name) = <<Me(p).extracted>>

\* C4: after a successful call (no other call running) targetDir is
\* managedDir/name and the directory holds exactly the files staged from the
\* archive: SKILL.md is there, nothing of an earlier directory is left.
C4_SuccessReplacesTarget ==
    \A p \in Procs :
        (Returned(p) /\ Me(p).result.ok) =>
            /\ Me(p).result.targetDir = <<ManagedSkillsDir, Me(p).name>>
            /\ Me(p).result.skillName = Me(p).name
            /\ Me(p).name \in DOMAIN managed.dirs
            /\ managed.dirs[Me(p).name] = Me(p).body
            /\ SkillMd \in DOMAIN managed.dirs[Me(p).name]
            /\ \A n \in DOMAIN Me(p).before.dirs \ {Me(p).name} :
                   DirAt(managed, n) = DirAt(Me(p).before, n)

C4_Witness ==
    \E p \in Procs :
        /\ Returned(p)
        /\ Me(p).result.ok
        /\ DirAt(Me(p).before, Me(p).name) = <<ArchiveA>>
        /\ DirAt(managed, Me(p).name) = <<ArchiveB>>

\* C5: release() is called exactly once for every response the fetcher hands
\* over, before the call returns and before extraction starts; it is not
\* called when no response was handed over.
AfterRelease ==
    {"ensureExtractDir", "extract", "stat", "rmTarget", "ensureManaged", "cp",
     "cleanup", "returned"}

C5_ReleaseExactlyOnce ==
    \A p \in Procs :
        /\ Me(p).releaseCalls <= Me(p).handed
        /\ Me(p).handed <= 1
        /\ (Me(p).handed = 1 /\ Me(p).pc \in AfterRelease) => Me(p).releaseCalls = 1
        /\ Me(p).extractDir => Me(p).releaseCalls = 1

C5_Witness ==
    \E p \in Procs :
        /\ Returned(p)
        /\ Me(p).failedAt = "status"
        /\ Me(p).handed = 1
        /\ Me(p).releaseCalls = 1

\* C6 as stated: every temp directory the call created is gone when it returns.
C6_TempDirGoneOnReturn ==
    \A p \in Procs :
        (Returned(p) /\ Me(p).tmpDir # 0) => Me(p).tmpDir \notin tmpDirs

\* C6 as amended: on every exit path after its creation the removal of the
\* temp directory is attempted exactly once before the call returns; the
\* directory is still there only if that removal failed (the error is ignored).
C6_TempDirCleanupAttempted ==
    \A p \in Procs :
        /\ (Returned(p) /\ Me(p).tmpDir # 0) =>
              /\ Me(p).cleanupCalls = 1
              /\ Me(p).tmpDir \in tmpDirs <=> ~Me(p).cleanupOk
        /\ (Me(p).pc \notin {"idle", "mkdtemp", "returned", "rejected"}) =>
              /\ Me(p).cleanupCalls = 0
              /\ Me(p).tmpDir \in tmpDirs

C6_Witness ==
    \E p \in Procs :
        /\ Returned(p)
        /\ Me(p).failedAt = "cp"
        /\ Me(p).cleanupOk
        /\ Me(p).tmpDir # 0
        /\ Me(p).tmpDir \notin tmpDirs

\* C7: the call always ends with a result value, never with an exception.
C7_NeverRejects == \A p \in Procs : Me(p).pc # "rejected"

\* ======================================================= claims on the ledger
Last == trail[Len(trail)]

\* The keys that have an install record in configuration c.
InstallKeys(c) ==
    IF "skills" \in DOMAIN c /\ "installs" \in DOMAIN c["skills"]
    THEN IF c["skills"]["installs"] = undefined THEN {} ELSE DOMAIN c["skills"]["installs"]
    ELSE {}

SkillsFields(c) == IF "skills" \in DOMAIN c THEN DOMAIN c["skills"] ELSE {}

\* A configuration as it is compared and written: a property whose value is
\* undefined counts as omitted.
Persisted(c) ==
    IF "skills" \in DOMAIN c /\ "installs" \in DOMAIN c["skills"]
       /\ c["skills"]["installs"] = undefined
    THEN Assign(c, "skills", Omit(c["skills"], "installs"))
    ELSE c

\* C8: recordSkillInstall(cfg, {skillName, ...record}) returns a configuration
\* whose skills.installs[skillName] is the record (installedAt filled in when
\* not supplied) and in which every other install record, every other field
\* of skills and every other top-level field is that of cfg.
C8_RecordPreservesTheRest ==
    (Len(trail) > 0 /\ Last.op = "record") =>
        LET c == Last.input
            k == Last.key
            record == Omit(Last.params, "skillName")
        IN  /\ DOMAIN cfg = DOMAIN c \cup {"skills"}
            /\ \A f \in DOMAIN c \ {"skills"} : cfg[f] = c[f]
            /\ DOMAIN cfg["skills"] = SkillsFields(c) \cup {"installs"}
            /\ \A f \in SkillsFields(c) \ {"installs"} : cfg["skills"][f] = c["skills"][f]
            /\ InstallKeys(cfg) = InstallKeys(c) \cup {k}
            /\ \A j \in InstallKeys(c) \ {k} :
                   cfg["skills"]["installs"][j] = c["skills"]["installs"][j]
            /\ DOMAIN cfg["skills"]["installs"][k] = DOMAIN record \cup {"installedAt"}
            /\ \A f \in DOMAIN record : cfg["skills"]["installs"][k][f] = record[f]
            /\ "installedAt" \notin DOMAIN record =>
                   cfg["skills"]["installs"][k]["installedAt"] = Last.at

C8_Witness ==
    /\ Len(trail) > 0
    /\ Last.op = "record"
    /\ Last.key = <<"a">>
    /\ "gateway" \in DOMAIN Last.input
    /\ "allowBundled" \in SkillsFields(Last.input)
    /\ InstallKeys(Last.input) = {<<"a", "a">>}
    /\ InstallKeys(cfg) = {<<"a">>, <<"a", "a">>}

\* C9: recording a key that has no record and then removing it gives back the
\* configuration one started from.
C9_RecordThenRemoveRoundTrip ==
    LET n == Len(trail)
    IN  (/\ n >= 2
         /\ trail[n - 1].op = "record"
         /\ trail[n].op = "remove"
         /\ trail[n].key = trail[n - 1].key
         /\ trail[n].key \notin InstallKeys(trail[n - 1].input))
        => Persisted(cfg) = Persisted(trail[n - 1].input)

\* C10: a recordSkillInstall for a key that already has a record, called
\* without installedAt, keeps the installedAt of the existing record.
C10_InstalledAtPreserved ==
    (/\ Len(trail) > 0
     /\ Last.op = "record"
     /\ Last.key \in InstallKeys(Last.input)
     /\ "installedAt" \notin DOMAIN Last.params)
    => cfg["skills"]["installs"][Last.key]["installedAt"]
          = Last.input["skills"]["installs"][Last.key]["installedAt"]

\* C11: removeSkillInstall(cfg, k) returns a configuration without a record
\* for k in which every other install record, every other field of skills and
\* every other top-level field is that of cfg; when no record is left the
\* installs field is undefined, not an empty object; removing the same key a
\* second time gives the configuration the first removal gave.
C11_RemoveDropsOnlyTheKey ==
    (Len(trail) > 0 /\ Last.op = "remove") =>
        LET c == Last.input
            k == Last.key
            n == Len(trail)
        IN  /\ DOMAIN cfg = DOMAIN c \cup {"skills"}
            /\ \A f \in DOMAIN c \ {"skills"} : cfg[f] = c[f]
            /\ DOMAIN cfg["skills"] = SkillsFields(c) \cup {"installs"}
            /\ \A f \in SkillsFields(c) \ {"installs"} : cfg["skills"][f] = c["skills"][f]
            /\ InstallKeys(cfg) = InstallKeys(c) \ {k}
            /\ \A j \in InstallKeys(c) \ {k} :
                   cfg["skills"]["installs"][j] = c["skills"]["installs"][j]
            /\ InstallKeys(c) \ {k} = {} => DOMAIN cfg["skills"]["installs"] = DOMAIN undefined
            /\ (n >= 2 /\ trail[n - 1].op = "remove" /\ trail[n - 1].key = k) => cfg = c

\* The only record is removed, and removed again.
C11_Witness ==
    /\ Len(trail) = 2
    /\ trail[1].op = "remove" /\ trail[2].op = "remove"
    /\ trail[1].key = <<"a">> /\ trail[2].key = <<"a">>
    /\ InstallKeys(trail[1].input) = {<<"a">>}
    /\ "gateway" \in DOMAIN trail[1].input
    /\ "allowBundled" \in SkillsFields(trail[1].input)
    /\ cfg["skills"]["installs"] = undefined

\* ================================================ claims on the HTTP handlers
SyncRq == req["/sync"]

InstallRq == req["/install"]

UninstallRq == req["/uninstall"]

\* The outcomes a sync reported for skill k.
OutcomesFor(r, k) ==
    { i \in DOMAIN r.results : r.results[i].type = "skill" /\ r.results[i].id = k }

AbsentFromCatalog(k) == Matching(remote.skills, k) = {}

SameVersion(c, k) ==
    ~AbsentFromCatalog(k) /\ InstallsOf(c)[k]["version"] = find(remote.skills, k).version

LacksArchiveUrl(c, k) ==
    /\ ~AbsentFromCatalog(k)
    /\ ~SameVersion(c, k)
    /\ find(remote.skills, k).archiveUrl = NoArchiveUrl

\* The sync loop ran through all marketplace skills of a configuration with a
\* catalog, and the answer went out.
SyncLoopCompleted ==
    /\ SyncRq.pc = "answered"
    /\ SyncRq.status = 200
    /\ HasCatalogUrl(SyncRq.cfg)
    /\ OutcomesFor(SyncRq, <<"*">>) = {}

\* C12: during a sync the archive installer runs for a skill only if its
\* record has source 'marketplace', the catalog has an entry of that name
\* with another version than the recorded one and with a non-empty archiveUrl;
\* a skill absent from the catalog or lacking an archive URL is reported
\* 'skipped', one with the catalog's version 'unchanged', and for these skills
\* the record in the resulting configuration and the skill's directory are
\* what they were when the request arrived.
C12_SyncInstallsOnlyOutdated ==
    LET r == SyncRq
        c == r.cfg
        Kept(k) == AbsentFromCatalog(k) \/ SameVersion(c, k) \/ LacksArchiveUrl(c, k)
        Expected(k) == IF SameVersion(c, k) THEN "unchanged" ELSE "skipped"
    IN  /\ inst["sync"].pc # "idle" =>
              /\ inst["sync"].name \in marketplaceSkills(c)
              /\ ~Kept(inst["sync"].name)
        /\ \A i \in DOMAIN r.invoked :
              r.invoked[i] \in marketplaceSkills(c) /\ ~Kept(r.invoked[i])
        /\ \A k \in marketplaceSkills(c) :
              Kept(k) =>
                 /\ \A i \in OutcomesFor(r, k) : r.results[i].status = Expected(k)
                 /\ SyncLoopCompleted => Cardinality(OutcomesFor(r, k)) = 1
                 /\ r.pc \notin {"auth", "authorized", "plugins"} =>
                       InstallsOf(r.next)[k] = InstallsOf(c)[k]
                 /\ InstallsOf(disk)[k] = InstallsOf(c)[k]
                 /\ DirAt(managed, k) = DirAt(r.before, k)

\* A sync that left one skill unchanged and skipped the other, without any
\* installer call.
C12_Witness ==
    /\ SyncLoopCompleted
    /\ SyncRq.invoked = <<>>
    /\ \E i \in OutcomesFor(SyncRq, <<"a">>) : SyncRq.results[i].status = "unchanged"
    /\ \E i \in OutcomesFor(SyncRq, <<"a", "a">>) :
          /\ SyncRq.results[i].status = "skipped"
          /\ SyncRq.results[i].error = <<"No archive URL">>

\* The sync request has answered.
SyncAnswered == SyncRq.pc = "answered" /\ SyncRq.status = 200

\* C13: when the re-installation of a skill fails during a sync, the skill is
\* reported 'error' with the installer's error message, its record in the
\* resulting configuration is the record it had before, and the marketplace
\* skills after it are processed too; when it succeeds the skill is reported
\* 'updated' with from = the recorded version and to = the catalog's version,
\* and the resulting record has the catalog's version and archiveUrl.
C13_SyncReinstallOutcome ==
    LET r == SyncRq
        c == r.cfg
    IN  SyncAnswered =>
          /\ \A n \in DOMAIN r.settled :
                LET k == r.settled[n].name
                    entry == find(remote.skills, k)
                    failed == r.settled[n].threw \/ ~r.settled[n].result.ok
                IN  /\ Cardinality(OutcomesFor(r, k)) = 1
                    /\ \A i \in OutcomesFor(r, k) :
                         IF failed
                         THEN /\ r.results[i].status = "error"
                              /\ r.results[i].error # NoMessage
                              /\ ~r.settled[n].threw =>
                                    r.results[i].error = r.settled[n].result.error
                              /\ InstallsOf(r.next)[k] = InstallsOf(c)[k]
                              /\ InstallsOf(disk)[k] = InstallsOf(c)[k]
                         ELSE /\ r.results[i].status = "updated"
                              /\ r.results[i].from = InstallsOf(c)[k]["version"]
                              /\ r.results[i].to = entry.version
                              /\ InstallsOf(r.next)[k]["version"] = entry.version
                              /\ InstallsOf(r.next)[k]["archiveUrl"] = entry.archiveUrl
                              /\ InstallsOf(disk)[k] = InstallsOf(r.next)[k]
          /\ r.settled # <<>> =>
                \A k \in marketplaceSkills(c) : OutcomesFor(r, k) # {}

\* The writeConfigFile calls made by the request to path.
WritesBy(path) == { i \in DOMAIN written : written[i].by = path }

UpdatedOutcomes(r, type) ==
    { i \in DOMAIN r.results : r.results[i].type = type /\ r.results[i].status = "updated" }

\* C14: a sync request writes the configuration at most once, and exactly when
\* changed is true; changed is true if and only if the plugin updater reported
\* a change or at least one skill was reported 'updated'; the written value
\* holds the plugin updater's new plugin records and every updated skill
\* record, and it is what the file holds afterwards.
C14_SyncWritesOnceIfChanged ==
    LET r == SyncRq
    IN  /\ Cardinality(WritesBy("/sync")) <= 1
        /\ r.pc \notin {"answered"} => WritesBy("/sync") = {}
        /\ r.pc \in {"loop", "install", "finish", "write", "answered"} =>
              (r.changed <=> (r.pluginChanged \/ UpdatedOutcomes(r, "skill") # {}))
        /\ SyncAnswered =>
              /\ (WritesBy("/sync") # {}) <=> r.changed
              /\ \A w \in WritesBy("/sync") :
                    /\ written[w].value = r.next
                    /\ disk = Stored(r.next)
                    /\ \A i \in UpdatedOutcomes(r, "plugin") :
                          PluginInstallsOf(written[w].value)[r.results[i].id]["version"]
                             = r.results[i].to
                    /\ \A i \in UpdatedOutcomes(r, "skill") :
                          /\ InstallsOf(written[w].value)[r.results[i].id]["version"]
                                = r.results[i].to
                          /\ InstallsOf(written[w].value)[r.results[i].id]["source"]
                                = "marketplace"

\* A sync that updated a plugin and both skills and wrote once.
C14_Witness ==
    /\ SyncAnswered
    /\ Len(written) = 1
    /\ SyncRq.pluginChanged
    /\ Cardinality(UpdatedOutcomes(SyncRq, "skill")) = 2

\* C15: the result list of a sync request holds exactly one outcome, with
\* status unchanged, updated, skipped or error, for every skill install record
\* whose source is 'marketplace', whatever the registry configuration and
\* whether or not the catalog could be fetched.
C15_OneOutcomePerMarketplaceSkill ==
    SyncAnswered =>
        \A k \in marketplaceSkills(SyncRq.cfg) :
            /\ Cardinality(OutcomesFor(SyncRq, k)) = 1
            /\ \A i \in OutcomesFor(SyncRq, k) :
                  SyncRq.results[i].status \in {"unchanged", "updated", "skipped", "error"}

\* C16: a request under /api/marketplace whose authorization fails is
\* answered with the auth failure and nothing else happens for it: no
\* configuration is loaded for a handler, no catalog fetched, no installer
\* called, nothing removed, no sync outcome produced, no file of the managed
\* directory changed and no configuration written; a handler is at work only
\* for a request whose authorization succeeded.
C16_NoEffectWithoutAuthorization ==
    \A path \in Paths :
        LET r == req[path]
        IN  /\ r.authResult = "failed" =>
                  /\ r.pc = "answered"
                  /\ r.status = 401
                  /\ DOMAIN r.cfg = {}
                  /\ DOMAIN r.next = {}
                  /\ r.catalog = NoCatalog
                  /\ r.invoked = <<>>
                  /\ r.results = <<>>
                  /\ r.listed = {}
                  /\ \A p \in Procs : inst[p].pc = "idle"
                  /\ calls = 0
                  /\ tmpDirs = {}
                  /\ managed = r.before
                  /\ written = <<>>
                  /\ disk \in StoredConfigs
            /\ r.pc \in {"authorized", "unhandled", "body", "catalog", "install", "plugin",
                         "rm", "plugins", "loop", "finish", "write", "rejected"} =>
                  r.authResult = "ok"
            /\ (r.pc = "answered" /\ r.status # 401) => r.authResult = "ok"

\* An install request for a skill of the catalog, turned away.
C16_Witness ==
    /\ InstallRq.authResult = "failed"
    /\ InstallRq.pc = "answered"
    /\ InstallRq.method = "POST"
    /\ InstallRq.body.id = <<"a">>
    /\ HasCatalogUrl(disk)
    /\ ~AbsentFromCatalog(<<"a">>)

\* The reasons for which POST /install answers with an error.
InstallErrors ==
    { <<400, <<"invalid body">>>>,
      <<400, <<"Missing 'id' in request body">>>>,
      <<405, <<"Method Not Allowed">>>>,
      <<401, <<"unauthorized">>>>,
      <<500, <<"No marketplace catalog configured">>>>,
      <<502, <<"Failed to fetch catalog:", "fetch failed">>>>,
      <<404, <<"not found in catalog">>>>,
      <<400, <<"Skill has no archive URL">>>>,
      <<500, <<"npm install failed">>>> }

\* C17: a POST /install request writes the configuration exactly once when it
\* answers 200 and never when it answers with an error or does not answer;
\* the value written is the loaded configuration plus the record of the unit,
\* the write comes after the installer returned success and the skill is in
\* the managed directory, and without such a write the file and its install
\* records are what they were.
C17_InstallWritesOnceOnSuccess ==
    LET r == InstallRq
        ok == r.pc = "answered" /\ r.status = 200
    IN  /\ Cardinality(WritesBy("/install")) <= 1
        /\ (WritesBy("/install") # {}) <=> ok
        /\ (r.pc = "answered" /\ ~ok) =>
              \/ <<r.status, r.error>> \in InstallErrors
              \/ /\ r.status = 500
                 /\ Len(r.settled) = 1
                 /\ ~r.settled[1].result.ok
                 /\ r.error = r.settled[1].result.error
        /\ (~ok /\ DOMAIN r.cfg # {}) => disk = r.cfg
        /\ r.pc \in {"write", "answered"} /\ r.status \in {0, 200} /\ r.invoked # <<>> =>
              /\ Len(r.settled) = 1
              /\ r.settled[1].result.ok
              /\ ~r.settled[1].threw
              /\ r.settled[1].name = r.entry.name
              /\ SkillMd \in DOMAIN FilesAt(managed.dirs, r.entry.name)
        /\ ok =>
              /\ \A w \in WritesBy("/install") : written[w].value = r.next
              /\ disk = Stored(r.next)
              /\ r.invoked # <<>> =>
                    /\ DOMAIN InstallsOf(disk) = DOMAIN InstallsOf(r.cfg) \cup {r.entry.name}
                    /\ InstallsOf(disk)[r.entry.name]["version"] = r.entry.version
                    /\ PluginsOf(disk) = PluginsOf(r.cfg)
              /\ r.invoked = <<>> =>
                    /\ DOMAIN PluginInstallsOf(disk)
                          = DOMAIN PluginInstallsOf(r.cfg) \cup {r.entry.name}
                    /\ DOMAIN InstallsOf(disk) = DOMAIN InstallsOf(r.cfg)

\* A skill that was not installed before is installed and recorded.
C17_Witness ==
    /\ InstallRq.pc = "answered"
    /\ InstallRq.status = 200
    /\ InstallRq.id = <<"a">>
    /\ InstallRq.invoked = << <<"a">> >>
    /\ DOMAIN InstallsOf(InstallRq.cfg) = {}
    /\ DOMAIN InstallsOf(disk) = {<<"a">>}
    /\ Len(written) = 1

\* C18: POST /install answers a skill install that failed with a validation,
\* security-policy or content error (a name that is invalid or reaches outside
\* the managed directory, an archive without SKILL.md) with a 4xx status and
\* one that failed with a network error (download status other than success,
\* DNS failure, timeout) with a 5xx status, the installer's error message
\* included in both cases.
C18_InstallFailureStatus ==
    LET r == InstallRq
    IN  (r.pc = "answered" /\ Len(r.settled) = 1 /\ ~r.settled[1].result.ok) =>
           /\ r.error = r.settled[1].result.error
           /\ r.settled[1].failedAt \in {"validate", "stat"} => r.status \in 400..499
           /\ (r.settled[1].failedAt = "status"
               \/ r.settled[1].result.error \in {<<"timeout">>, <<"dns failure">>})
              => r.status \in 500..599

\* The names of the skills an answer of GET /installed lists.
ListedSkills(answer) == { e.name : e \in { x \in answer.listed : x.type = "skill" } }

\* Answer i is the 200 of an uninstall of skill k.
Uninstalled(i, k) ==
    /\ answered[i].path = "/uninstall"
    /\ answered[i].type = "skill"
    /\ answered[i].id = k
    /\ answered[i].status = 200

ChangedBy(path) ==
    IF path = "/sync"
    THEN { SyncRq.results[i].id : i \in UpdatedOutcomes(SyncRq, "skill") }
    ELSE { req[path].id }

\* What the file held before the i-th write.
HeldBefore(i) == {OverlapConfig} \cup { Stored(written[j].value) : j \in 1..(i - 1) }

\* C20: install, uninstall and sync requests that overlap are not serialised.
\* Each request writes the whole configuration it derived from the snapshot
\* it loaded at its start: apart from the records the request itself changed,
\* the written value is that snapshot, whatever another request wrote in the
\* meantime. The file holds the value of the last write (last write wins).
C20_LastWriteWins ==
    /\ written = <<>> => disk = OverlapConfig
    /\ written # <<>> => disk = Stored(written[Len(written)].value)
    /\ \A i \in DOMAIN written :
          LET r == req[written[i].by]
              value == written[i].value
          IN  /\ r.pc = "answered" /\ r.status = 200 /\ r.wrote = 1
              /\ value = r.next
              /\ r.cfg \in HeldBefore(i)
              /\ value["gateway"] = r.cfg["gateway"]
              /\ PluginsOf(value) = PluginsOf(r.cfg)
              /\ \A k \in (DOMAIN InstallsOf(value) \cup DOMAIN InstallsOf(r.cfg))
                             \ ChangedBy(written[i].by) :
                    /\ k \in DOMAIN InstallsOf(value)
                    /\ k \in DOMAIN InstallsOf(r.cfg)
                    /\ InstallsOf(value)[k] = InstallsOf(r.cfg)[k]

\* An uninstall and a sync overlap: both load the initial configuration, the
\* uninstall removes its record and writes first, the sync updates the other
\* skill and writes last. The file holds the uninstalled skill's record again
\* although its directory is gone.
C20_Witness ==
    /\ Len(written) = 2
    /\ written[1].by = "/uninstall"
    /\ written[2].by = "/sync"
    /\ UninstallRq.cfg = OverlapConfig
    /\ SyncRq.cfg = OverlapConfig
    /\ <<"a">> \notin DOMAIN InstallsOf(written[1].value)
    /\ ChangedBy("/sync") = { <<"a", "a">> }
    /\ <<"a">> \in DOMAIN InstallsOf(disk)
    /\ InstallsOf(disk)[<<"a", "a">>]["version"] = "2.0.0"
    /\ <<"a">> \notin DOMAIN managed.dirs

\* C21: when two installs of the same skill run at the same time and both
\* succeed, the target directory holds exactly the files staged by one of
\* them (the one whose copy came last), never files of both archives, and
\* the two installs worked in different temp directories.
C21_LastRelocationWins ==
    \A p \in Procs : \A q \in Procs \ {p} :
        (/\ inst[p].pc \in {"cleanup", "returned"}
         /\ inst[q].pc \in {"cleanup", "returned"}
         /\ inst[p].result.ok
         /\ inst[q].result.ok
         /\ inst[p].name = inst[q].name) =>
            /\ FilesAt(managed.dirs, inst[p].name) \in {inst[p].extracted, inst[q].extracted}
            /\ (inst[p].pc = "cleanup" /\ inst[q].pc = "cleanup") =>
                  inst[p].tmpDir # inst[q].tmpDir

\* ============================= claims on credentials and the catalog
\* The metadata strategy yielded no token: the fetch threw (network error,
\* timeout), the status was not a success, or no access_token came out.
MetadataFailed(r) ==
    \/ r.metadata.threw
    \/ ~r.metadata.ok
    \/ ~r.metadata.parsed
    \/ r.metadata.access_token = ""

\* The CLI strategy yielded no token: it could not be run, exited with
\* another code than 0, or printed nothing but white space.
CliFailed(r) ==
    \/ r.cli.threw
    \/ r.cli.code # 0
    \/ \A i \in DOMAIN r.cli.stdout : r.cli.stdout[i] \in {" ", "\n"}

\* C22: resolveGarAuthToken never throws; it returns null exactly when the
\* metadata strategy and the CLI strategy both yield no token, and a
\* non-empty token otherwise.
C22_ResolverNeverThrows ==
    rpc.fn = "resolveGarAuthToken" =>
        /\ rpc.pc # "threw"
        /\ rpc.pc = "returned" =>
              /\ rpc.kind \in {"null", "token"}
              /\ rpc.kind = "null" <=>
                    (MetadataFailed(rpc) /\ includes(rpc.invoked, "cli") /\ CliFailed(rpc))
              /\ rpc.kind = "null" => rpc.token = null
              /\ rpc.kind = "token" => rpc.token \notin {null, ""}

\* Both strategies fail and the resolver returns null.
C22_Witness ==
    /\ rpc.fn = "resolveGarAuthToken"
    /\ rpc.pc = "returned"
    /\ rpc.kind = "null"
    /\ rpc.metadata.threw
    /\ rpc.cli.code = 1

\* C23: resolveGarAuthToken queries the metadata endpoint first, runs the CLI
\* only when the metadata strategy produced no token, and returns the
\* metadata token without running the CLI when there is one.
C23_MetadataFirst ==
    rpc.fn = "resolveGarAuthToken" =>
        /\ rpc.invoked \in { <<>>, <<"metadata">>, <<"metadata", "cli">> }
        /\ rpc.pc \in {"resolved", "returned"} => rpc.invoked # <<>>
        /\ includes(rpc.invoked, "cli") => MetadataFailed(rpc)
        /\ (rpc.pc = "returned" /\ ~MetadataFailed(rpc)) =>
              /\ rpc.invoked = <<"metadata">>
              /\ rpc.token = rpc.metadata.access_token
        /\ (rpc.pc = "returned" /\ MetadataFailed(rpc) /\ ~CliFailed(rpc)) =>
              /\ rpc.invoked = <<"metadata", "cli">>
              /\ rpc.token = "cli-token"

\* The metadata server answers with a token: the CLI is not run.
C23_Witness ==
    /\ rpc.fn = "resolveGarAuthToken"
    /\ rpc.pc = "returned"
    /\ rpc.token = "metadata-token"
    /\ rpc.invoked = <<"metadata">>

\* C24: when resolveRegistryAuth is configured with 'gcloud-adc', the metadata
\* service and the CLI helper both fail and a static token is configured, the
\* registry credentials are built from the static token.
C24_StaticTokenEndsTheChain ==
    (/\ rpc.fn = "resolveRegistryAuth"
     /\ rpc.pc = "returned"
     /\ rpc.kind = "auth"
     /\ Get(rpc.registry, "authMethod") = "gcloud-adc"
     /\ rpc.token = null
     /\ Truthy(rpc.registry, "authToken")) =>
        rpc.auth.registryEnv =
            buildGarRegistryEnv(rpc.registry["npmRegistry"], rpc.registry["authToken"])

\* C25: fetchCatalogWithAuth uses a supplied static token without asking the
\* resolver; without one it asks the resolver only for 'gcloud-adc'; otherwise,
\* and when the resolver returns null, the catalog is fetched without an
\* Authorization header; the call never ends before the fetch.
C25_CatalogAuthChoice ==
    (rpc.fn = "fetchCatalogWithAuth" /\ rpc.pc # "idle") =>
        LET static == Truthy(rpc.params, "authToken")
            delegated == ~static /\ Get(rpc.params, "authMethod") = "gcloud-adc"
            fetched == includes(rpc.invoked, "fetch")
        IN  /\ static => ~includes(rpc.invoked, "metadata")
            /\ ~delegated => rpc.invoked \in { <<>>, <<"fetch">> }
            /\ (delegated /\ rpc.pc \notin {"metadata"}) => rpc.invoked[1] = "metadata"
            /\ rpc.pc \in {"returned", "threw"} => fetched
            /\ fetched =>
                  /\ rpc.invoked[Len(rpc.invoked)] = "fetch"
                  /\ static =>
                        rpc.request.headers =
                           [h \in {"Authorization"} |-> <<"Bearer", rpc.params["authToken"]>>]
                  /\ (delegated /\ rpc.token # null) =>
                        rpc.request.headers =
                           [h \in {"Authorization"} |-> <<"Bearer", rpc.token>>]
                  /\ (delegated /\ rpc.token = null) => DOMAIN rpc.request.headers = {}
                  /\ (~static /\ ~delegated) => DOMAIN rpc.request.headers = {}

\* 'gcloud-adc' without a static token, both strategies fail, and the catalog
\* is fetched without credentials and returned.
C25_Witness ==
    /\ rpc.fn = "fetchCatalogWithAuth"
    /\ rpc.pc = "returned"
    /\ rpc.invoked = <<"metadata", "cli", "fetch">>
    /\ rpc.token = null
    /\ DOMAIN rpc.request.headers = {}

\* The response of the catalog fetch that led to the result.
CatalogFetched == rpc.fn \in {"fetchCatalog", "fetchCatalogWithAuth"} /\ rpc.pc \in {"returned", "threw"}

\* C26: fetchCatalog returns the body only when the response is a success and
\* the body is an object with a numeric version and arrays plugins and
\* skills; a non-success response fails with the status and reason phrase
\* whatever the body; otherwise a version that is not a number fails naming
\* 'version', else a missing plugins array fails naming 'plugins', else a
\* missing skills array fails naming 'skills'.
C26_CatalogValidation ==
    CatalogFetched =>
        LET body == rpc.body
            failedStatus == /\ Len(rpc.error) = 4
                            /\ rpc.error[1] = "Failed to fetch catalog from"
            wellFormed == /\ body.parsed /\ body.json = "object" /\ body.version = "number"
                          /\ body.plugins = "array" /\ body.skills = "array"
        IN  /\ rpc.pc = "returned" =>
                  /\ rpc.kind = "catalog"
                  /\ ~failedStatus
                  /\ wellFormed
            /\ (rpc.pc = "threw" /\ failedStatus) =>
                  /\ rpc.error[2] = rpc.request.url
                  /\ <<rpc.error[3], rpc.error[4]>> \in
                        { <<res.status, res.statusText>> : res \in { r \in Responses : ~r.ok } }
            /\ (rpc.pc = "threw" /\ ~failedStatus /\ DOMAIN body # {}
                /\ body.parsed /\ body.json = "object") =>
                  /\ ~wellFormed
                  /\ body.version # "number" => includes(rpc.error, "version")
                  /\ (body.version = "number" /\ body.plugins # "array") =>
                        includes(rpc.error, "plugins")
                  /\ (body.version = "number" /\ body.plugins = "array") =>
                        includes(rpc.error, "skills")

\* A successful response whose body has neither a version nor the
\* collections: the error names the version.
C26_Witness ==
    /\ rpc.fn = "fetchCatalog"
    /\ rpc.pc = "threw"
    /\ DOMAIN rpc.body # {}
    /\ rpc.body.parsed
    /\ rpc.body.json = "object"
    /\ rpc.body.version = "absent"
    /\ rpc.body.plugins = "absent"
    /\ rpc.body.skills = "absent"
    /\ includes(rpc.error, "version")

\* C27: resolveRegistryAuth returns null exactly when no npmRegistry is
\* configured; otherwise registryUrl is npmRegistry, and registryEnv is
\* non-empty exactly when the method is 'gcloud-adc' and a token was resolved
\* or the method is 'token' and authToken is set; the resolver is asked only
\* for 'gcloud-adc'; 'npmrc' or no method gives an empty registryEnv.
C27_RegistryAuth ==
    rpc.fn = "resolveRegistryAuth" =>
        LET method == Get(rpc.registry, "authMethod")
            configured == "npmRegistry" \in DOMAIN rpc.registry /\ rpc.registry["npmRegistry"] # <<>>
        IN  /\ rpc.pc # "threw"
            /\ rpc.invoked # <<>> => (configured /\ method = "gcloud-adc")
            /\ rpc.pc = "returned" =>
                  /\ rpc.kind = "null" <=> ~configured
                  /\ rpc.kind # "null" =>
                        /\ rpc.kind = "auth"
                        /\ rpc.auth.registryUrl = rpc.registry["npmRegistry"]
                        /\ (DOMAIN rpc.auth.registryEnv # {}) <=>
                              \/ method = "gcloud-adc" /\ rpc.token # null
                              \/ (/\ method = "token"
                                  /\ "authToken" \in DOMAIN rpc.registry
                                  /\ rpc.registry["authToken"] # "")
                        /\ method \in {"npmrc", ""} => DOMAIN rpc.auth.registryEnv = {}
                        /\ method = "gcloud-adc" => rpc.invoked # <<>>

\* A registry with a static token: the credentials come from it and the
\* resolver is not asked.
C27_Witness ==
    /\ rpc.fn = "resolveRegistryAuth"
    /\ rpc.pc = "returned"
    /\ rpc.kind = "auth"
    /\ Get(rpc.registry, "authMethod") = "token"
    /\ rpc.invoked = <<>>
    /\ DOMAIN rpc.auth.registryEnv # {}

\* ======================================================= claims on plugins
\* The plugins of a kind that a configuration enables.
EnabledOfKind(c, kind) ==
    LET report == buildPluginStatusReport(c)
    IN  { report[i].id : i \in { j \in DOMAIN report : report[j].kind = kind /\ report[j].enabled } }

ContainsIgnoringCase(s, q) ==
    LET lower(ch) == IF ch = "A" THEN "a" ELSE IF ch = "B" THEN "b" ELSE ch
    IN  \E offset \in 0..(Len(s) - Len(q)) :
           \A i \in 1..Len(q) : lower(s[offset + i]) = lower(q[i])

\* The entry matches: one of the named fields, or one of its tags, contains q.
EntryMatches(e, fields, q) ==
    \/ \E f \in fields : ContainsIgnoringCase(e[f], q)
    \/ "tags" \in DOMAIN e /\ \E i \in DOMAIN e["tags"] : ContainsIgnoringCase(e["tags"][i], q)

\* found is entries restricted to the matching ones, in the same order.
ExactlyTheMatches(found, entries, fields, q) ==
    LET hits == { i \in DOMAIN entries : EntryMatches(entries[i], fields, q) }
        nth(k) == CHOOSE i \in hits : Cardinality({ j \in hits : j < i }) = k - 1
    IN  /\ Len(found) = Cardinality(hits)
        /\ \A k \in 1..Len(found) : found[k] = entries[nth(k)]

\* C29: searchCatalog returns, in catalog order, exactly the plugins whose id,
\* name, description or some tag contains the query and exactly the skills
\* whose name, description or some tag contains it, ignoring letter case; the
\* empty query returns every entry and a query that matches nothing two empty
\* arrays.
C29_SearchCatalog ==
    (rpc.fn = "searchCatalog" /\ rpc.pc = "returned") =>
        LET catalog == rpc.params.catalog
            q == rpc.params.query
        IN  /\ ExactlyTheMatches(rpc.body.plugins, catalog.plugins,
                                 {"id", "name", "description"}, q)
            /\ ExactlyTheMatches(rpc.body.skills, catalog.skills, {"name", "description"}, q)
            /\ q = <<>> => (rpc.body.plugins = catalog.plugins /\ rpc.body.skills = catalog.skills)
            /\ q = <<"c", "c">> => (rpc.body.plugins = <<>> /\ rpc.body.skills = <<>>)

\* An upper-case query finds the second plugin by a lower-case tag and the
\* skill by its name, and not the first plugin.
C29_Witness ==
    /\ rpc.fn = "searchCatalog"
    /\ rpc.pc = "returned"
    /\ rpc.params.query = <<"a", "B">>
    /\ Len(rpc.body.plugins) = 1
    /\ rpc.body.plugins[1] = rpc.params.catalog.plugins[2]
    /\ rpc.body.plugins[1]["tags"] = << <<"c">>, <<"A", "b">> >>
    /\ Len(rpc.body.skills) = 1
    /\ rpc.body.skills[1]["name"] = <<"A", "b">>

\* C30: the catalog fetch requests the URL with gs:// replaced by
\* https://storage.googleapis.com/ and every other URL as given; the copy of
\* the rewrite used for the archive download gives the same result on the
\* same URL, and rewriting the result again changes nothing.
C30_GcsRewrite ==
    (rpc.fn \in {"fetchCatalog", "fetchCatalogWithAuth"} /\ includes(rpc.invoked, "fetch")) =>
        LET given == rpc.params["catalogUrl"]
            sent == rpc.request.url
        IN  /\ given[1] = "gs://" =>
                  sent = <<"https://storage.googleapis.com/">> \o Tail(given)
            /\ given[1] # "gs://" => sent = given
            /\ resolveGcsUrl(given) = sent
            /\ resolveGcsUrlOfCatalog(sent) = sent
            /\ resolveGcsUrl(sent) = sent

\* A gs:// catalog URL is requested from the public endpoint.
C30_Witness ==
    /\ rpc.fn = "fetchCatalog"
    /\ rpc.pc = "returned"
    /\ rpc.params["catalogUrl"] = <<"gs://", "bucket/catalog.json">>
    /\ rpc.request.url = <<"https://storage.googleapis.com/", "bucket/catalog.json">>

\* ====================================================== claims on the command line
\* id names a skill of the catalog and no plugin of it.
NamesOnlyASkill(catalog, id) ==
    /\ Matching(catalog.skills, id) # {}
    /\ MatchingPlugin(catalog.plugins, id) = {}

\* C31: 'marketplace install <id>' looks the id up among the plugins and the
\* skills of the catalog: for an id that names only a skill the command, once
\* it has the catalog, does not end with a not-found error but puts the skill
\* into the managed skills directory and records it in skills.installs at the
\* catalog's version.
C31_CliInstallsSkills ==
    (/\ rpc.fn = "marketplace install"
     /\ rpc.pc = "exited"
     /\ rpc.catalog # NoCatalog
     /\ NamesOnlyASkill(rpc.catalog, rpc.id))
    => /\ rpc.error # <<"Plugin", "not found in the catalog.">>
       /\ rpc.exit = 0 => /\ rpc.id \in DOMAIN managed.dirs
                          /\ rpc.id \in DOMAIN InstallsOf(disk)
                          /\ InstallsOf(disk)[rpc.id].version = find(rpc.catalog.skills, rpc.id).version

\* ====================================================== claims on failures and sequences of requests
\* C32: when the re-installation of an installed skill fails at any step, the
\* directory managedDir/name is still there with the contents it had before:
\* after a sync that reports the skill 'error', the directory is the one the
\* request found and the record in the written configuration is untouched.
C32_FailedReinstallKeepsDirectory ==
    LET r == SyncRq
    IN  SyncAnswered =>
          \A n \in DOMAIN r.settled :
              LET k == r.settled[n].name
              IN  (/\ ~r.settled[n].threw
                   /\ ~r.settled[n].result.ok
                   /\ \E i \in OutcomesFor(r, k) : r.results[i].status = "error")
                  => /\ DirAt(managed, k) = DirAt(r.before, k)
                     /\ DirAt(managed, k) # <<>>
                     /\ InstallsOf(disk)[k] = InstallsOf(r.cfg)[k]

\* C33: in every run of install, uninstall and sync requests made one after
\* the other from a consistent state, whenever no request is in progress each
\* record with source 'marketplace' in the configuration file has its
\* directory managedDir/<name>, and the directory contains SKILL.md (as the
\* skill of the recorded version does), also when a step of a request failed.
C33_RecordsHaveDirectories ==
    NoRequestInProgress =>
        \A k \in marketplaceSkills(disk) :
            /\ k \in DOMAIN managed.dirs
            /\ SkillMd \in DOMAIN managed.dirs[k]

\* A valid skill name: not empty, no path separator, not '.' or '..', and no
\* leading dot.
ValidSkillName(name) == ~FirstGroupName(name) /\ ~DotPrefixedName(name)

\* The temp directories created or deleted by a step.
TmpDirsTouched == (tmpDirs' \ tmpDirs) \cup (tmpDirs \ tmpDirs')

\* C34: starting from a ledger whose keys are valid skill names, every step of
\* every sequence of install, uninstall and sync requests leaves every key of
\* skills.installs a valid skill name; every directory it creates, changes or
\* deletes in the managed skills directory is managedDir/<valid name>, a
\* direct child of it (the managed directory itself is only ever created,
\* never deleted); and every temp directory it creates or deletes is the temp
\* directory of the install call that takes the step.
C34_OnlyValidNamesAndOwnPaths ==
    [][ /\ \A k \in DOMAIN InstallsOf(disk') : ValidSkillName(k)
        /\ \A k \in DOMAIN managed.dirs \cup DOMAIN managed'.dirs :
              DirAt(managed', k) # DirAt(managed, k) => ValidSkillName(k)
        /\ managed.exists => managed'.exists
        /\ \A n \in TmpDirsTouched :
              \E p \in Procs : /\ inst'[p] # inst[p]
                               /\ n \in {inst[p].tmpDir, inst'[p].tmpDir}
                               /\ \A q \in Procs \ {p} : inst[q].tmpDir # n ]_vars

\* An install of the skill with the backslash in its name was answered 500 and
\* an install of the skill a was answered 200 and recorded: the directory of a
\* is in place and no other directory was made.
C34_Witness ==
    /\ \E i \in DOMAIN answered :
          /\ answered[i].path = "/install"
          /\ answered[i].id = <<"\\", "a">>
          /\ answered[i].status = 500
    /\ \E i \in DOMAIN answered :
          /\ answered[i].path = "/install"
          /\ answered[i].id = <<"a">>
          /\ answered[i].status = 200
    /\ <<"a">> \in DOMAIN InstallsOf(disk)
    /\ DOMAIN managed.dirs = {<<"a">>}
    /\ managed.exists

\* Every marketplace skill of c that the catalog offers with an archive is
\* recorded at the catalog's version.
UpToDate(c) ==
    \A k \in marketplaceSkills(c) :
        (Matching(remote.skills, k) # {} /\ find(remote.skills, k).archiveUrl # NoArchiveUrl)
        => InstallsOf(c)[k]["version"] = find(remote.skills, k).version

\* The sync request has answered after writing (and nothing was written
\* since), every re-installation it made succeeded and none of its outcomes
\* is an error.
CleanSync(r) ==
    /\ r.pc = "answered"
    /\ r.status = 200
    /\ r.wrote = 1
    /\ written # <<>>
    /\ written[Len(written)] = [by |-> "/sync", value |-> r.next]
    /\ \A n \in DOMAIN r.settled : ~r.settled[n].threw /\ r.settled[n].result.ok
    /\ \A i \in DOMAIN r.results : r.results[i].status # "error"

\* The sync request loaded the configuration an earlier sync wrote, and every
\* re-installation of that sync had succeeded.
FollowsCleanSync(r) ==
    /\ written # <<>>
    /\ written[1].by = "/sync"
    /\ r.pc \notin {"idle", "auth", "authorized"}
    /\ r.cfg = Stored(written[1].value)
    /\ UpToDate(r.cfg)

\* C35: when a sync completes with every re-installation succeeding and its
\* write persisted, the configuration file holds every re-installed skill at
\* the catalog's version, and a following sync against the same catalog
\* reports no skill 'updated', calls the archive installer for none, and
\* leaves changed as the plugin update set it (so it writes nothing on
\* account of skills).
C35_SyncIsIdempotent ==
    LET r == SyncRq
    IN  /\ CleanSync(r) => /\ disk = Stored(r.next)
                           /\ UpToDate(disk)
                           /\ \A n \in DOMAIN r.settled :
                                 InstallsOf(disk)[r.settled[n].name]["version"]
                                   = find(remote.skills, r.settled[n].name).version
        /\ FollowsCleanSync(r) =>
              /\ \A i \in DOMAIN r.results :
                    ~(r.results[i].type = "skill" /\ r.results[i].status = "updated")
              /\ r.invoked = <<>>
              /\ r.settled = <<>>
              /\ inst["sync"].pc = "idle"
              /\ r.changed = r.pluginChanged
              /\ r.pc # "write"
              /\ r.wrote = 0

\* The second of two syncs has answered: the first re-installed the skill a
\* and wrote, the second reports a and aa unchanged and wrote nothing.
C35_Witness ==
    /\ FollowsCleanSync(SyncRq)
    /\ SyncRq.pc = "answered"
    /\ Len(answered) = 2
    /\ Len(written) = 1
    /\ InstallsOf(disk)[<<"a">>]["version"] = "2.0.0"
    /\ \A k \in {<<"a">>, <<"a", "a">>} :
          \E i \in OutcomesFor(SyncRq, k) : SyncRq.results[i].status = "unchanged"

\* ====================================================== claims on the type hint and the tokens
\* The entry the install request was dispatched with is a plugin / a skill of
\* the catalog.
DispatchedPlugin(r) == r.entry.name # NoName /\ r.entry.npmSpec # <<>>

DispatchedSkill(r) == r.entry.name # NoName /\ r.entry.npmSpec = <<>>

\* C36: POST /install honours the type hint: with type 'skill' only a skill
\* is installed, never a plugin, and the answer is 404 when the catalog has
\* no skill of that name; with type 'plugin' only a plugin is installed (404
\* without one); without a hint an id that matches a plugin and a skill
\* installs the plugin.
C36_TypeHintHonoured ==
    LET r == InstallRq
        hasSkill == Matching(r.catalog.skills, r.id) # {}
        hasPlugin == MatchingPlugin(r.catalog.plugins, r.id) # {}
    IN  r.catalog # NoCatalog =>
          /\ r.type = "skill" => /\ ~DispatchedPlugin(r)
                                 /\ ~hasSkill => (r.pc = "answered" /\ r.status = 404)
          /\ r.type = "plugin" => /\ ~DispatchedSkill(r)
                                  /\ ~hasPlugin => (r.pc = "answered" /\ r.status = 404)
          /\ (r.type = "" /\ hasSkill /\ hasPlugin) => DispatchedPlugin(r)

\* C37: for every registry configuration, the bearer token sent with the
\* catalog fetch and the bearer token sent with the skill archive download of
\* the same install or sync request are the same: both absent, or both equal.
C37_SameBearerToken ==
    \A p \in Procs :
        LET r == IF p = "install" THEN InstallRq ELSE SyncRq
        IN  inst[p].request # <<>> =>
                inst[p].request[2] = RequestInit(r.catalogToken)

\* ====================================================== claims on the registry environment
\* The registry URL with its trailing slash removed, or added if it has none.
OtherSlashForm(url) ==
    IF url # <<>> /\ url[Len(url)] = "/" THEN SubSeq(url, 1, Len(url) - 1) ELSE url \o <<"/">>

\* C38: buildGarRegistryEnv returns exactly two entries, a registry-scoped key
\* mapped to the token and NPM_CONFIG__AUTH mapped to base64('_:' + token),
\* and the same for the same input; the host and path encoded in the
\* registry-scoped key end with a slash (encoded as '_' before the '_' of the
\* colon), for a URL that parses and in the fallback, so the registry URL with
\* and without a trailing slash gives the same key.
C38_GarRegistryEnv ==
    (rpc.fn = "buildGarRegistryEnv" /\ rpc.pc = "returned") =>
        LET url == rpc.params.registryUrl
            token == rpc.params.token
            env == rpc.auth
            scoped == DOMAIN env \ { <<"NPM_CONFIG__AUTH">> }
        IN  /\ Cardinality(DOMAIN env) = 2
            /\ <<"NPM_CONFIG__AUTH">> \in DOMAIN env
            /\ env[<<"NPM_CONFIG__AUTH">>] = <<"base64", "_:", token>>
            /\ env = buildGarRegistryEnv(url, token)
            /\ \A k \in scoped :
                  /\ env[k] = <<token>>
                  /\ k[1] = "npm_config_"
                  /\ SubSeq(k, Len(k) - 2, Len(k)) = <<"_", "_", "_authToken">>
            /\ url # <<>> =>
                  DOMAIN buildGarRegistryEnv(OtherSlashForm(url), token) = DOMAIN env

====
